---- MODULE Spec2Model ----
(***************************************************************************)
(* Model of the food-photo nutrition analyser (src/ai_analyzer.py):        *)
(* NutritionAnalyzer.analyze_food and the recovery pipeline that turns the *)
(* language model's free-text reply into a nutrition record.               *)
(*                                                                         *)
(* A reply text is a sequence of lexemes.  Every lexeme is the literal     *)
(* piece of text it is named after; the text of a reply is the             *)
(* concatenation of its lexemes.  Whitespace, the fence marker, braces and *)
(* commas are lexemes of their own, a "key":value pair of a JSON object is *)
(* one lexeme and a prose sentence (ending in a full stop) is one lexeme.  *)
(* The language tag json is a lexeme where it follows a fence marker.  The *)
(* individual_foods pair, whose value is a list of one object, is the run  *)
(* of lexemes IndivSeq: the braces of the object are lexemes like any.     *)
(***************************************************************************)
EXTENDS Integers, Sequences, FiniteSets, TLC

VARIABLES pc, image_hash, response_text, result, accepted, builtBy, ran,
          prevFallback,
          image, prepared, ipc,
          unvalidated, validated, revalidated, vpc,
          daily_meals, nutrition_logs, today, clock, lastSaved, logged, reply,
          users, creating,
          session_state, query_params, authenticated, checks, loggedOut

\* the recovery pipeline of analyze_food
pipelineVars == <<pc, image_hash, response_text, result, accepted, builtBy, ran,
                  prevFallback>>
\* the image steps of analyze_food
imageVars == <<image, prepared, ipc>>
\* _validate_llm_result applied to a candidate
validatorVars == <<unvalidated, validated, revalidated, vpc>>

\* the daily_meals and nutrition_logs collections of DatabaseManager, the
\* date, the clock, what the successful saves stored and the last return value
mealVars == <<daily_meals, nutrition_logs, today, clock, lastSaved, logged, reply>>
\* the users collection and the create_user call of each session
accountVars == <<users, creating>>
\* st.session_state and st.query_params of the open browser session, the
\* usernames authenticate_user has accepted, the calls of
\* check_persistent_session in the session, and whether it has logged out
sessionVars == <<session_state, query_params, authenticated, checks, loggedOut>>
appVars == <<mealVars, accountVars, sessionVars>>

vars == <<pipelineVars, imageVars, validatorVars, appVars>>

(***************************************************************************)
(* Bounds of the model.                                                    *)
(***************************************************************************)
\* number of sample fingerprints the uploaded images hash to
NumHashes == 2
\* number of optional extra pairs a reply's JSON object carries
MaxExtras == 1

(***************************************************************************)
(* Lexemes.                                                                *)
(***************************************************************************)
WS == "\n"
\* the markdown code-fence marker, three backquotes
FENCE == "<fence>"
LANG == "json"
LB == "{"
RB == "}"
COMMA == ","

FoodsNasi == "\"foods_detected\":[\"Nasi\"]"
FoodsTwo == "\"foods_detected\":[\"Soto betawi\",\"Kerupuk\"]"
FoodsEmpty == "\"foods_detected\":[]"
FoodsStr == "\"foods_detected\":\"[Nasi]\""
FoodsNum == "\"foods_detected\":[1]"
Cal500 == "\"total_calories\":500"
Cal0 == "\"total_calories\":0"
CalNeg == "\"total_calories\":-5"
CalStr == "\"total_calories\":\"banyak\""
CalNumStr == "\"total_calories\":\"500\""
CalNull == "\"total_calories\":null"
SrcPair == "\"analysis_source\":\"smart_fallback\""
ImgPair == "\"image_id\":\"zz\""
NotePair == "\"note\":\"image processing\""
TipsPair == "\"health_tips\":[\"Makan sayur\"]"
IndivOpen == "\"individual_foods\":["
NameNasi == "\"name\":\"Nasi\""
Cals900 == "\"calories\":900"
IndivClose == "]"

ProseS == "Here is the result."
RefuseS == "I cannot analyze this image, it appears to be a general photo."
VisionS == "This needs Computer Vision."
KcalS == "Sekitar 620 kcal."
KcalZeroS == "Sekitar 000 kcal."
MenuS == "Menu: soto betawi, kerupuk."
SaranS == "Saran: kurangi gorengan; minum air."

FoodsLexemes == {FoodsNasi, FoodsTwo, FoodsEmpty, FoodsStr, FoodsNum}
CalLexemes == {Cal500, Cal0, CalNeg, CalStr, CalNumStr, CalNull}
\* the extra pairs of an object; IndivOpen stands for the individual_foods pair
ExtraLexemes == {SrcPair, ImgPair, NotePair, TipsPair, IndivOpen}
\* the pairs of the object inside the individual_foods list
EntryLexemes == {NameNasi, Cals900}
\* the pairs that are one lexeme
PairLexemes == FoodsLexemes \cup CalLexemes \cup (ExtraLexemes \ {IndivOpen})
                   \cup EntryLexemes

\* "individual_foods":[{"name":"Nasi","calories":900}]
IndivSeq == <<IndivOpen, LB, NameNasi, COMMA, Cals900, RB, IndivClose>>
ProseLexemes == {ProseS, RefuseS, VisionS, KcalS, KcalZeroS, MenuS, SaranS}

(***************************************************************************)
(* JSON values as Python holds them after json.loads.  Every value is a    *)
(* record of the same shape: t is the Python type, k the key under which   *)
(* the value sits in its dict ("" outside a dict), n the number, s the     *)
(* string, l the elements of a list or the members of a dict in insertion  *)
(* order.  A float is held in hundredths (0.8 is n = 80).                  *)
(***************************************************************************)
JInt(i) == [t |-> "int", k |-> "", n |-> i, s |-> "", l |-> <<>>]
JFloat(h) == [t |-> "float", k |-> "", n |-> h, s |-> "", l |-> <<>>]
JStr(str) == [t |-> "str", k |-> "", n |-> 0, s |-> str, l |-> <<>>]
JNull == [t |-> "NoneType", k |-> "", n |-> 0, s |-> "", l |-> <<>>]
JList(elems) == [t |-> "list", k |-> "", n |-> 0, s |-> "", l |-> elems]
JDict(members) == [t |-> "dict", k |-> "", n |-> 0, s |-> "", l |-> members]
Keyed(key, v) == [v EXCEPT !.k = key]

\* key in d
Has(d, key) == \E i \in 1..Len(d.l) : d.l[i].k = key

\* d[key], for a key that is in d
Get(d, key) == d.l[CHOOSE i \in 1..Len(d.l) : d.l[i].k = key]

\* d[key] = v: a key already in d keeps its place, a new key goes last
Put(d, key, v) ==
    IF Has(d, key)
    THEN [d EXCEPT !.l = [i \in 1..Len(d.l) |->
                             IF d.l[i].k = key THEN Keyed(key, v) ELSE d.l[i]]]
    ELSE [d EXCEPT !.l = Append(d.l, Keyed(key, v))]

\* the key and the value a pair lexeme denotes
PairKey(tok) ==
    CASE tok \in FoodsLexemes -> "foods_detected"
      [] tok \in CalLexemes -> "total_calories"
      [] tok = SrcPair -> "analysis_source"
      [] tok = ImgPair -> "image_id"
      [] tok = NotePair -> "note"
      [] tok = TipsPair -> "health_tips"
      [] tok = IndivOpen -> "individual_foods"
      [] tok = NameNasi -> "name"
      [] tok = Cals900 -> "calories"

PairValue(tok) ==
    CASE tok = FoodsNasi -> JList(<<JStr("Nasi")>>)
      [] tok = FoodsTwo -> JList(<<JStr("Soto betawi"), JStr("Kerupuk")>>)
      [] tok = FoodsEmpty -> JList(<<>>)
      [] tok = FoodsStr -> JStr("[Nasi]")
      [] tok = FoodsNum -> JList(<<JInt(1)>>)
      [] tok = Cal500 -> JInt(500)
      [] tok = Cal0 -> JInt(0)
      [] tok = CalNeg -> JInt(-5)
      [] tok = CalStr -> JStr("banyak")
      [] tok = CalNumStr -> JStr("500")
      [] tok = CalNull -> JNull
      [] tok = SrcPair -> JStr("smart_fallback")
      [] tok = ImgPair -> JStr("zz")
      [] tok = NotePair -> JStr("image processing")
      [] tok = TipsPair -> JList(<<JStr("Makan sayur")>>)
      [] tok = NameNasi -> JStr("Nasi")
      [] tok = Cals900 -> JInt(900)

(***************************************************************************)
(* Text operations of str and json.                                        *)
(***************************************************************************)
RECURSIVE LStrip(_)
LStrip(text) ==
    IF text # <<>> /\ Head(text) = WS THEN LStrip(Tail(text)) ELSE text

RECURSIVE RStrip(_)
RStrip(text) ==
    IF text # <<>> /\ text[Len(text)] = WS
    THEN RStrip(SubSeq(text, 1, Len(text) - 1))
    ELSE text

\* str.strip()
Strip(text) == RStrip(LStrip(text))

\* .replace(fence + 'json', '').replace(fence, '')
RECURSIVE RemoveFences(_)
RemoveFences(text) ==
    IF text = <<>> THEN <<>>
    ELSE IF Head(text) = FENCE
         THEN IF Len(text) >= 2 /\ text[2] = LANG
              THEN RemoveFences(SubSeq(text, 3, Len(text)))
              ELSE RemoveFences(Tail(text))
         ELSE <<Head(text)>> \o RemoveFences(Tail(text))

StartsWithBrace(text) == text # <<>> /\ Head(text) = LB
EndsWithBrace(text) == text # <<>> /\ text[Len(text)] = RB

RECURSIVE DropWS(_)
DropWS(text) ==
    IF text = <<>> THEN <<>>
    ELSE IF Head(text) = WS THEN DropWS(Tail(text))
         ELSE <<Head(text)>> \o DropWS(Tail(text))

\* the number of lexemes of the member the lexemes start with, 0 if they
\* start with no member
MemberLen(toks) ==
    IF toks = <<>> THEN 0
    ELSE IF Head(toks) \in PairLexemes THEN 1
    ELSE IF Len(toks) >= Len(IndivSeq) /\ SubSeq(toks, 1, Len(IndivSeq)) = IndivSeq
         THEN Len(IndivSeq)
    ELSE 0

\* the members between the braces: member (, member)*
RECURSIVE MembersOk(_)
MembersOk(toks) ==
    LET n == MemberLen(toks)
    IN  /\ n > 0
        /\ \/ Len(toks) = n
           \/ /\ Len(toks) >= n + 2
              /\ toks[n + 1] = COMMA
              /\ MembersOk(SubSeq(toks, n + 2, Len(toks)))

RECURSIVE BuildDict(_, _)
BuildDict(toks, d) ==
    IF toks = <<>> THEN d
    ELSE IF Head(toks) = COMMA THEN BuildDict(Tail(toks), d)
    ELSE IF Head(toks) = IndivOpen
         THEN BuildDict(SubSeq(toks, Len(IndivSeq) + 1, Len(toks)),
                        Put(d, PairKey(IndivOpen),
                            JList(<<BuildDict(SubSeq(IndivSeq, 3, 5), JDict(<<>>))>>)))
    ELSE BuildDict(Tail(toks), Put(d, PairKey(Head(toks)), PairValue(Head(toks))))

\* json.loads(text) for a text that is to hold one object:
\* ok is FALSE where json.loads raises JSONDecodeError
JsonLoads(text) ==
    LET toks == DropWS(text)
        inner == SubSeq(toks, 2, Len(toks) - 1)
        wellFormed == /\ Len(toks) >= 2
                      /\ toks[1] = LB
                      /\ toks[Len(toks)] = RB
                      /\ (inner = <<>> \/ MembersOk(inner))
    IN  IF wellFormed
        THEN [ok |-> TRUE, value |-> BuildDict(inner, JDict(<<>>))]
        ELSE [ok |-> FALSE, value |-> JNull]

(***************************************************************************)
(* Numbers and their formatting.                                           *)
(***************************************************************************)
\* int(c * num / den): Python's int() truncates towards zero
TruncMul(c, num, den) ==
    IF c * num >= 0 THEN (c * num) \div den ELSE -((-(c * num)) \div den)

\* The double nearest to 0.35 lies below 7/20, and for these c in 0..9999 the
\* double product c * 0.35 lies below the exact c * 7 / 20, an integer there,
\* so that int() yields one less; everywhere else in 0..9999, and for every
\* other factor of the code on the values it meets, int() of the double
\* expression equals the exact truncation.
ShortOf035 ==
    {180, 340, 360, 660, 680, 700, 720, 1300, 1320, 1340, 1360, 1380, 1400,
     1420, 1440, 1460, 2580, 2600, 2620, 2640, 2660, 2680, 2700, 2720, 2740,
     2760, 2780, 2800, 2820, 2840, 2860, 2880, 2900, 2920, 5140, 5160, 5180,
     5200, 5220, 5240, 5260, 5280, 5300, 5320, 5340, 5360, 5380, 5400, 5420,
     5440, 5460, 5480, 5500, 5520, 5540, 5560, 5580, 5600, 5620, 5640, 5660,
     5680, 5700, 5720, 5740, 5760, 5780, 5800, 5820, 5840}

ShortOf035Div4 ==
    {720, 1360, 1440, 2640, 2720, 2800, 2880, 5200, 5280, 5360, 5440, 5520,
     5600, 5680, 5760, 5840}

\* int(c * 0.35), for c in 0..9999
TruncMul035(c) == TruncMul(c, 7, 20) - (IF c \in ShortOf035 THEN 1 ELSE 0)

\* int(c * 0.35 / 4), for c in 0..9999
TruncMul035Div4(c) == TruncMul(c, 7, 80) - (IF c \in ShortOf035Div4 THEN 1 ELSE 0)

Max(a, b) == IF a >= b THEN a ELSE b

DigitChar == <<"0", "1", "2", "3", "4", "5", "6", "7", "8", "9">>

\* str(i) of a non-negative int
RECURSIVE NatToStr(_)
NatToStr(i) ==
    IF i < 10 THEN DigitChar[i + 1]
    ELSE NatToStr(i \div 10) \o DigitChar[(i % 10) + 1]

\* f"{i}"
IntToStr(i) == IF i < 0 THEN "-" \o NatToStr(-i) ELSE NatToStr(i)

\* f"{i}g"
Grams(i) == JStr(IntToStr(i) \o "g")

\* the characters of a fingerprint, joined into one string
RECURSIVE Concat(_)
Concat(chars) ==
    IF chars = <<>> THEN "" ELSE Head(chars) \o Concat(Tail(chars))

\* sep.join(strs), for a list of str
RECURSIVE Join(_, _)
Join(strs, sep) ==
    IF strs = <<>> THEN ""
    ELSE IF Len(strs) = 1 THEN strs[1].s
         ELSE strs[1].s \o sep \o Join(Tail(strs), sep)

IsNumber(v) == v.t \in {"int", "float"}

\* lst[:n]
FirstN(lst, n) == SubSeq(lst, 1, IF Len(lst) < n THEN Len(lst) ELSE n)

(***************************************************************************)
(* _is_valid_nutrition_result: the shape check of stages 1-3.              *)
(***************************************************************************)
\* the shape check without the test that the list is non-empty
IsValidWithoutLength(parsed) ==
    /\ Has(parsed, "foods_detected")
    /\ Has(parsed, "total_calories")
    /\ Get(parsed, "foods_detected").t = "list"

\* the shape check with foods_detected as the only required field
IsValidFoodsOnly(parsed) ==
    /\ Has(parsed, "foods_detected")
    /\ Get(parsed, "foods_detected").t = "list"
    /\ Len(Get(parsed, "foods_detected").l) > 0

_is_valid_nutrition_result(parsed) ==
    /\ Has(parsed, "foods_detected")
    /\ Has(parsed, "total_calories")
    /\ Get(parsed, "foods_detected").t = "list"
    /\ Len(Get(parsed, "foods_detected").l) > 0

(***************************************************************************)
(* _validate_llm_result: the validator, step by step in the order of the   *)
(* code.  raised is TRUE where the code raises (", ".join of a list that   *)
(* holds a value that is not a str raises TypeError).                      *)
(***************************************************************************)
\* the breakdown with fat taken at 4 kcal per gram
MacroBreakdownFatAt4(c) ==
    JDict(<<Keyed("calories", JInt(c)),
            Keyed("protein", Grams(TruncMul(c, 4, 100))),
            Keyed("carbohydrates", Grams(TruncMul(c, 27, 200))),
            Keyed("fat", Grams(TruncMul(c, 3, 40))),
            Keyed("fiber", Grams(Max(4, TruncMul(c, 1, 120)))),
            Keyed("sugar", Grams(Max(3, TruncMul(c, 1, 150))))>>)

MacroBreakdown(c) ==
    JDict(<<Keyed("calories", JInt(c)),
            Keyed("protein", Grams(TruncMul(c, 4, 100))),
            Keyed("carbohydrates", Grams(TruncMul(c, 27, 200))),
            Keyed("fat", Grams(TruncMul(c, 1, 30))),
            Keyed("fiber", Grams(Max(4, TruncMul(c, 1, 120)))),
            Keyed("sugar", Grams(Max(3, TruncMul(c, 1, 150))))>>)

PortionName == <<"utama", "sedang", "kecil">>
\* portion_ratio in tenths: 0.6, 0.3, 0.1
PortionTenths == <<6, 3, 1>>

DerivedFood(food, i, c) ==
    JDict(<<Keyed("name", food),
            Keyed("estimated_portion", JStr("1 porsi " \o PortionName[i])),
            Keyed("calories", JInt(TruncMul(c, PortionTenths[i], 10))),
            Keyed("protein", Grams(TruncMul(c, PortionTenths[i] * 15, 4000))),
            Keyed("carbs", Grams(TruncMul(c, PortionTenths[i] * 55, 4000))),
            Keyed("fat", Grams(TruncMul(c, PortionTenths[i] * 30, 9000)))>>)

ValidateFoods(r) ==
    IF ~Has(r, "foods_detected") \/ Get(r, "foods_detected").t # "list"
    THEN Put(r, "foods_detected", JList(<<JStr("Makanan dari analisis AI")>>))
    ELSE r

\* the validator taking a string that float() accepts for the number
ValidateCaloriesCoercing(r) ==
    IF ~Has(r, "total_calories")
       \/ ~(IsNumber(Get(r, "total_calories"))
              \/ Get(r, "total_calories") = Keyed("total_calories", JStr("500")))
    THEN Put(r, "total_calories", JInt(450))
    ELSE IF IsNumber(Get(r, "total_calories")) THEN r
    ELSE Put(r, "total_calories", JInt(500))

ValidateCalories(r) ==
    IF ~Has(r, "total_calories") \/ ~IsNumber(Get(r, "total_calories"))
    THEN Put(r, "total_calories", JInt(450))
    ELSE r

\* the validator setting confidence_score whether or not it is present
ValidateConfidenceAlways(r) == Put(r, "confidence_score", JFloat(80))

ValidateConfidence(r) ==
    IF ~Has(r, "confidence_score")
    THEN Put(r, "confidence_score", JFloat(80))
    ELSE r

ValidateBreakdown(r) ==
    IF ~Has(r, "nutritional_breakdown") \/ Get(r, "nutritional_breakdown").t # "dict"
    THEN Put(r, "nutritional_breakdown", MacroBreakdown(Get(r, "total_calories").n))
    ELSE r

ValidateIndividual(r) ==
    IF ~Has(r, "individual_foods") \/ Get(r, "individual_foods").t # "list"
    THEN LET foods == FirstN(Get(r, "foods_detected").l, 3)
             c == Get(r, "total_calories").n
         IN  Put(r, "individual_foods",
                 JList([i \in 1..Len(foods) |-> DerivedFood(foods[i], i, c)]))
    ELSE r

TipsNeeded(r) == ~Has(r, "health_tips") \/ Get(r, "health_tips").t # "list"

JoinRaises(lst) == \E i \in 1..Len(lst) : lst[i].t # "str"

\* the validator adding its tips to the tips the candidate holds
ValidateTipsAppending(r) ==
    Put(r, "health_tips",
        JList((IF TipsNeeded(r) THEN <<>> ELSE Get(r, "health_tips").l)
              \o <<JStr("Kombinasi " \o Join(Get(r, "foods_detected").l, ", ")
                        \o " memberikan energi yang baik"),
                   JStr("Pastikan keseimbangan nutrisi harian"),
                   JStr("Minum air putih yang cukup")>>))

ValidateTips(r) ==
    IF TipsNeeded(r)
    THEN Put(r, "health_tips",
             JList(<<JStr("Kombinasi " \o Join(Get(r, "foods_detected").l, ", ")
                          \o " memberikan energi yang baik"),
                     JStr("Pastikan keseimbangan nutrisi harian"),
                     JStr("Minum air putih yang cukup")>>))
    ELSE r

_validate_llm_result(candidate) ==
    LET r5 == ValidateIndividual(ValidateBreakdown(ValidateConfidence(
                  ValidateCalories(ValidateFoods(candidate)))))
    IN  IF TipsNeeded(r5) /\ JoinRaises(Get(r5, "foods_detected").l)
        THEN [raised |-> TRUE, value |-> r5]
        ELSE [raised |-> FALSE, value |-> ValidateTips(r5)]

(***************************************************************************)
(* Fingerprints: _get_image_hash returns the first 8 characters of a hex   *)
(* digest; a fingerprint is the sequence of its characters.                *)
(***************************************************************************)
HashLen == 8

HexChars == <<"0", "1", "2", "3", "4", "5", "6", "7", "8", "9",
              "a", "b", "c", "d", "e", "f">>

HexDigitValue(ch) == (CHOOSE i \in 1..16 : HexChars[i] = ch) - 1

SampleHashes ==
    << <<"0", "0", "0", "0", "0", "0", "0", "a">>,
       <<"f", "f", "f", "f", "f", "f", "f", "f">>,
       <<"7", "c", "2", "2", "9", "e", "4", "1">>,
       <<"1", "0", "0", "0", "0", "0", "0", "0">>,
       <<"d", "e", "a", "d", "b", "e", "e", "f">> >>

Fingerprints == {SampleHashes[i] : i \in 1..NumHashes}

\* int(image_hash, 16) % m, reduced modulo m digit by digit
RECURSIVE HexMod(_, _, _)
HexMod(chars, acc, m) ==
    IF chars = <<>> THEN acc
    ELSE HexMod(Tail(chars), (acc * 16 + HexDigitValue(Head(chars))) % m, m)

(***************************************************************************)
(* _create_smart_fallback: the deterministic fallback record.              *)
(***************************************************************************)
food_combinations ==
    << <<"Nasi putih", "Ayam goreng", "Sayur bayam", 580>>,
       <<"Gado-gado", "Kerupuk", "Es teh", 520>>,
       <<"Mie ayam", "Pangsit", "Es jeruk", 620>>,
       <<"Rendang", "Nasi putih", "Sayur asem", 720>>,
       <<"Soto ayam", "Nasi putih", "Emping", 480>>,
       <<"Gudeg", "Tahu bacem", "Telur", 650>>,
       <<"Pecel lele", "Nasi putih", "Sambal", 590>> >>

FoodEntry(name, portion, cal, protein, carbs, fat) ==
    JDict(<<Keyed("name", JStr(name)),
            Keyed("estimated_portion", JStr(portion)),
            Keyed("calories", JInt(cal)),
            Keyed("protein", Grams(protein)),
            Keyed("carbs", Grams(carbs)),
            Keyed("fat", Grams(fat))>>)

\* the table index taken modulo one less than the table length
FallbackIndexShortTable(hash) ==
    (IF hash # <<>> THEN HexMod(hash, 0, Len(food_combinations) - 1) ELSE 0) + 1

\* hash_int = int(image_hash, 16) if image_hash else 0; the table index
FallbackIndex(hash) ==
    (IF hash # <<>> THEN HexMod(hash, 0, Len(food_combinations)) ELSE 0) + 1

_create_smart_fallback(hash) ==
    LET selected == food_combinations[FallbackIndex(hash)]
        total_cal == selected[4]
    IN  JDict(<<
          Keyed("foods_detected",
                JList(<<JStr(selected[1]), JStr(selected[2]), JStr(selected[3])>>)),
          Keyed("total_calories", JInt(total_cal)),
          Keyed("nutritional_breakdown", MacroBreakdown(total_cal)),
          Keyed("individual_foods", JList(<<
              FoodEntry(selected[1], "1 porsi utama",
                        TruncMul(total_cal, 6, 10), TruncMul(total_cal, 1, 40),
                        TruncMul035Div4(total_cal), TruncMul(total_cal, 1, 50)),
              FoodEntry(selected[2], "1 porsi sedang",
                        TruncMul(total_cal, 3, 10), TruncMul(total_cal, 1, 80),
                        TruncMul(total_cal, 3, 80), TruncMul(total_cal, 2, 225)),
              FoodEntry(selected[3], "1 porsi kecil",
                        TruncMul(total_cal, 1, 10), TruncMul(total_cal, 1, 400),
                        TruncMul(total_cal, 1, 100), TruncMul(total_cal, 1, 225))>>)),
          Keyed("health_tips", JList(<<
              JStr("Kombinasi " \o selected[1] \o " dan " \o selected[2]
                   \o " memberikan energi yang baik"),
              JStr("Pastikan keseimbangan nutrisi dengan sayuran"),
              JStr("Minum air putih yang cukup untuk hidrasi")>>)),
          Keyed("confidence_score", JFloat(75)),
          Keyed("note", JStr("Analisis konsisten berdasarkan foto (ID: "
                             \o Concat(hash) \o ")")),
          Keyed("analysis_source", JStr("smart_fallback"))>>)

(***************************************************************************)
(* _extract_from_llm_response: heuristic extraction.  re.findall(pattern,  *)
(* response) of each pattern is given lexeme by lexeme: FoodCapture,       *)
(* CalorieCapture and TipCapture hold, for the first match of the pattern  *)
(* inside the lexeme, what the code makes of the captured group (quotes    *)
(* removed, split, filtered, cut to three).  Every capture of a pattern    *)
(* ends inside the lexeme it starts in: a prose sentence ends in a full    *)
(* stop and the lists of the pair lexemes end in a closing bracket.  The   *)
(* one exception, tip pattern 3 on the health_tips pair, is never          *)
(* consulted, because tip pattern 1 matches the same lexeme first and      *)
(* yields a usable list.                                                   *)
(***************************************************************************)
NoMatch == [hit |-> FALSE, items |-> <<>>, n |-> 0]
Captured(items) == [hit |-> TRUE, items |-> items, n |-> 0]
CapturedInt(i) == [hit |-> TRUE, items |-> <<>>, n |-> i]

\* food_patterns: makanan, terdeteksi, terdiri, menu, foods_detected
FoodCapture(tok, p) ==
    CASE p = 4 /\ tok = MenuS -> Captured(<<JStr("soto"), JStr("bet"), JStr("kerupuk")>>)
      [] p = 5 /\ tok = FoodsTwo -> Captured(<<JStr("Soto"), JStr("bet"), JStr("Kerupuk")>>)
      [] p = 5 /\ tok \in {FoodsNasi, FoodsEmpty, FoodsStr, FoodsNum} -> Captured(<<>>)
      [] OTHER -> NoMatch

\* calorie_patterns: total_calories, (k)cal, kalori, calories
CalorieCapture(tok, p) ==
    CASE p \in {1, 4} /\ tok \in {Cal500, CalNumStr} -> CapturedInt(500)
      [] p = 2 /\ tok = KcalS -> CapturedInt(620)
      [] p = 2 /\ tok = KcalZeroS -> CapturedInt(0)
      [] p = 4 /\ tok = Cals900 -> CapturedInt(900)
      [] OTHER -> NoMatch

\* tip_patterns: health_tips, saran, tips
TipCapture(tok, p) ==
    CASE p = 1 /\ tok = TipsPair -> Captured(<<JStr("Makan sayur")>>)
      [] p = 2 /\ tok = SaranS -> Captured(<<JStr("kurangi gorengan"), JStr("minum air")>>)
      [] OTHER -> NoMatch

\* the capture of pattern p of a family of patterns in a lexeme
Capture(family, tok, p) ==
    CASE family = "food" -> FoodCapture(tok, p)
      [] family = "calorie" -> CalorieCapture(tok, p)
      [] family = "tip" -> TipCapture(tok, p)

\* matches[0] of re.findall(pattern p, response): the match in the first
\* lexeme the pattern matches in
RECURSIVE FirstMatch(_, _, _)
FirstMatch(family, text, p) ==
    IF text = <<>> THEN NoMatch
    ELSE IF Capture(family, Head(text), p).hit THEN Capture(family, Head(text), p)
         ELSE FirstMatch(family, Tail(text), p)

\* the loop over food_patterns and over tip_patterns: the first pattern
\* whose first match yields a non-empty list wins
RECURSIVE ResolveList(_, _, _, _, _)
ResolveList(family, text, p, last, default) ==
    IF p > last THEN default
    ELSE LET m == FirstMatch(family, text, p)
         IN  IF m.hit /\ m.items # <<>> THEN m.items
             ELSE ResolveList(family, text, p + 1, last, default)

\* the loop over calorie_patterns without its break: the last pattern that
\* matches wins
ResolveCaloriesWithoutBreak(text, p) ==
    LET hits == {q \in p..4 : FirstMatch("calorie", text, q).hit}
    IN  IF hits = {} THEN 450
        ELSE FirstMatch("calorie", text, CHOOSE q \in hits : \A r \in hits : r <= q).n

\* the loop over calorie_patterns: the first pattern that matches wins
RECURSIVE ResolveCalories(_, _)
ResolveCalories(text, p) ==
    IF p > 4 THEN 450
    ELSE LET m == FirstMatch("calorie", text, p)
         IN  IF m.hit THEN m.n ELSE ResolveCalories(text, p + 1)

_extract_from_llm_response(response, hash) ==
    LET detected_foods == ResolveList("food", response, 1, 5,
                                      <<JStr("Makanan dari foto")>>)
        total_calories == ResolveCalories(response, 1)
        health_tips == ResolveList("tip", response, 1, 3,
                           <<JStr("Konsumsi dengan porsi seimbang"),
                             JStr("Perbanyak sayuran"),
                             JStr("Minum air putih cukup")>>)
        second == IF Len(detected_foods) > 1 THEN detected_foods[2].s
                  ELSE "Makanan pendamping"
    IN  JDict(<<
          Keyed("foods_detected", JList(detected_foods)),
          Keyed("total_calories", JInt(total_calories)),
          Keyed("nutritional_breakdown", MacroBreakdown(total_calories)),
          Keyed("individual_foods", JList(<<
              FoodEntry(detected_foods[1].s, "1 porsi utama",
                        TruncMul(total_calories, 13, 20), TruncMul(total_calories, 1, 40),
                        TruncMul035Div4(total_calories), TruncMul(total_calories, 1, 45)),
              FoodEntry(second, "1 porsi kecil",
                        TruncMul035(total_calories), TruncMul(total_calories, 3, 200),
                        TruncMul(total_calories, 19, 400), TruncMul(total_calories, 1, 90))>>)),
          Keyed("health_tips", JList(health_tips)),
          Keyed("confidence_score", JFloat(75)),
          Keyed("note", JStr("Ekstraksi manual dari respons AI (ID: "
                             \o Concat(hash) \o ")")),
          Keyed("analysis_source", JStr("extracted_llm")),
          Keyed("image_id", JStr(Concat(hash)))>>)

(***************************************************************************)
(* The candidates of stages 2 and 3 (re.findall of analyze_food).          *)
(***************************************************************************)
RECURSIVE SkipWS(_, _)
SkipWS(text, i) ==
    IF i <= Len(text) /\ text[i] = WS THEN SkipWS(text, i + 1) ELSE i

\* the lazy .*? of the fenced pattern: the first closing brace at or after e
\* that is followed by optional whitespace and a fence; 0 if there is none
RECURSIVE FencedEnd(_, _)
FencedEnd(text, e) ==
    IF e > Len(text) THEN 0
    ELSE IF text[e] = RB
            /\ SkipWS(text, e + 1) <= Len(text)
            /\ text[SkipWS(text, e + 1)] = FENCE
         THEN e
         ELSE FencedEnd(text, e + 1)

\* fence (json)? \s* ( { .*? } ) \s* fence, re.DOTALL, matched at lexeme i
FencedAt(text, i) ==
    LET afterLang == IF i + 1 <= Len(text) /\ text[i + 1] = LANG THEN i + 2 ELSE i + 1
        b == SkipWS(text, afterLang)
        e == IF b <= Len(text) /\ text[b] = LB THEN FencedEnd(text, b + 1) ELSE 0
    IN  IF text[i] = FENCE /\ e # 0
        THEN [found |-> TRUE, group |-> SubSeq(text, b, e), next |-> SkipWS(text, e + 1) + 1]
        ELSE [found |-> FALSE, group |-> <<>>, next |-> i + 1]

\* json_blocks: the groups of the non-overlapping matches, left to right
RECURSIVE FencedBlocks(_, _)
FencedBlocks(text, i) ==
    IF i > Len(text) THEN <<>>
    ELSE LET m == FencedAt(text, i)
         IN  IF m.found THEN <<m.group>> \o FencedBlocks(text, m.next)
             ELSE FencedBlocks(text, i + 1)

\* the brace pattern { ( [^{}] | ( { [^{}]* } )* )* } from the lexeme after an
\* opening brace: the index of the closing brace of the match, 0 if none.
\* No lexeme other than LB and RB holds a brace.  Where the pattern fails
\* at an opening brace, re.findall goes on from the lexeme after it.
RECURSIVE BraceEnd(_, _)
BraceEnd(text, j) ==
    IF j > Len(text) THEN 0
    ELSE IF text[j] = RB THEN j
    ELSE IF text[j] = LB
         THEN LET inner == {x \in (j + 1)..Len(text) : text[x] \in {LB, RB}}
                  x == IF inner = {} THEN 0
                       ELSE CHOOSE y \in inner : \A z \in inner : y <= z
              IN  IF x # 0 /\ text[x] = RB THEN BraceEnd(text, x + 1) ELSE 0
    ELSE BraceEnd(text, j + 1)

\* json_matches: the non-overlapping matches of the brace pattern
RECURSIVE BraceMatches(_, _)
BraceMatches(text, i) ==
    IF i > Len(text) THEN <<>>
    ELSE LET e == IF text[i] = LB THEN BraceEnd(text, i + 1) ELSE 0
         IN  IF e # 0 THEN <<SubSeq(text, i, e)>> \o BraceMatches(text, e + 1)
             ELSE BraceMatches(text, i + 1)

\* the lexemes that hold 'image processing', 'computer vision' or
\* 'cannot analyze' once lowered
KeywordLexemes == {RefuseS, VisionS, NotePair}

ContainsKeyword(text) == \E i \in 1..Len(text) : text[i] \in KeywordLexemes

(***************************************************************************)
(* One parse attempt of stages 1-3 and the loop over the candidates.       *)
(*   "next":   JSONDecodeError or shape check failed, the stage goes on    *)
(*   "record": the validated candidate                                     *)
(*   "raised": _validate_llm_result raised; the exception leaves the stage *)
(***************************************************************************)
TryCandidate(text) ==
    LET parsed == JsonLoads(text)
        v == _validate_llm_result(parsed.value)
    IN  IF ~parsed.ok \/ ~_is_valid_nutrition_result(parsed.value)
        THEN [outcome |-> "next", value |-> JNull, candidate |-> JNull]
        ELSE IF v.raised
             THEN [outcome |-> "raised", value |-> JNull, candidate |-> parsed.value]
             ELSE [outcome |-> "record", value |-> v.value, candidate |-> parsed.value]

RECURSIVE TryCandidates(_)
TryCandidates(cands) ==
    IF cands = <<>> THEN [outcome |-> "next", value |-> JNull, candidate |-> JNull]
    ELSE LET first == TryCandidate(Strip(Head(cands)))
         IN  IF first.outcome = "next" THEN TryCandidates(Tail(cands)) ELSE first

\* the three fields set with setdefault: a field the object of the model
\* carries is kept
TaggedKeepingOwn(r, noteText, tag, hash) ==
    LET r1 == IF Has(r, "note") THEN r
              ELSE Put(r, "note", JStr(noteText \o " (ID: " \o Concat(hash) \o ")"))
        r2 == IF Has(r1, "analysis_source") THEN r1
              ELSE Put(r1, "analysis_source", JStr(tag))
    IN  IF Has(r2, "image_id") THEN r2 ELSE Put(r2, "image_id", JStr(Concat(hash)))

\* validated_result["note"], ["analysis_source"] and ["image_id"]
Tagged(r, noteText, tag, hash) ==
    Put(Put(Put(r, "note", JStr(noteText \o " (ID: " \o Concat(hash) \o ")")),
            "analysis_source", JStr(tag)),
        "image_id", JStr(Concat(hash)))

(***************************************************************************)
(* The reply texts the model may send.                                     *)
(***************************************************************************)
ExtraOrder == <<SrcPair, ImgPair, NotePair, TipsPair, IndivOpen>>

\* the lexemes of a list of pairs: IndivOpen is written out as IndivSeq
RECURSIVE Expand(_)
Expand(pairs) ==
    IF pairs = <<>> THEN <<>>
    ELSE (IF Head(pairs) = IndivOpen THEN IndivSeq ELSE <<Head(pairs)>>)
             \o Expand(Tail(pairs))

RECURSIVE CommaJoin(_)
CommaJoin(pairs) ==
    IF Len(pairs) <= 1 THEN pairs
    ELSE <<Head(pairs), COMMA>> \o CommaJoin(Tail(pairs))

\* the pairs of an object: at most one foods_detected, at most one
\* total_calories, at most MaxExtras of the other pairs
PairLists ==
    {  (IF f = "" THEN <<>> ELSE <<f>>) \o (IF c = "" THEN <<>> ELSE <<c>>)
         \o SelectSeq(ExtraOrder, LAMBDA x : x \in ex) :
       f \in FoodsLexemes \cup {""}, c \in CalLexemes \cup {""},
       ex \in {e \in SUBSET ExtraLexemes : Cardinality(e) <= MaxExtras} }

Objects == {<<LB>> \o Expand(CommaJoin(pairs)) \o <<RB>> : pairs \in PairLists}

\* malformed JSON: the commas left out, or the closing brace left out
Malformed ==
    {<<LB>> \o Expand(pairs) \o <<RB>> : pairs \in {q \in PairLists : Len(q) = 2}}
    \cup {<<LB>> \o Expand(CommaJoin(pairs)) :
              pairs \in {q \in PairLists : Len(q) = 2}}

Bodies == Objects \cup Malformed

Wrapped(b) ==
    { b,
      <<WS>> \o b \o <<WS>>,
      <<FENCE, LANG, WS>> \o b \o <<WS, FENCE>>,
      <<FENCE, LANG>> \o b \o <<FENCE>>,
      <<FENCE, WS>> \o b \o <<WS, FENCE>>,
      <<ProseS, WS, FENCE, LANG, WS>> \o b \o <<WS, FENCE>>,
      <<ProseS, WS>> \o b,
      b \o <<WS, ProseS>>,
      <<RefuseS, WS>> \o b,
      <<RefuseS, WS, FENCE, LANG, WS>> \o b \o <<WS, FENCE>>,
      <<LB, FoodsEmpty, RB, WS>> \o b,
      b \o <<WS, LB, FoodsNasi, COMMA, Cal0, RB>>,
      <<FENCE, LANG, WS, LB, FoodsEmpty, RB, WS, FENCE, WS, FENCE, LANG, WS>>
          \o b \o <<WS, FENCE>>,
      <<FENCE, LANG, WS>> \o b
          \o <<WS, FENCE, WS, FENCE, WS, LB, FoodsNasi, COMMA, Cal0, RB, WS, FENCE>>,
      b \o <<WS, MenuS, WS, KcalS, WS, SaranS>> }

ProseTexts ==
    {<<>>, <<WS>>} \cup {<<a>> : a \in ProseLexemes}
    \cup {<<a, WS, b>> : a \in ProseLexemes, b \in ProseLexemes}

Texts == ProseTexts \cup UNION {Wrapped(b) : b \in Bodies}

(***************************************************************************)
(* analyze_food, one action per step of the call.                          *)
(*   pc            where the call stands                                   *)
(*   image_hash    _get_image_hash(image) of the uploaded image            *)
(*   response_text the reply of the model                                  *)
(*   result        the record returned (JNull while there is none)         *)
(*   accepted      the parsed object that passed the shape check of a      *)
(*                 stage of 1-3 (JNull while there is none)                *)
(*   builtBy       the stage whose code built the returned record          *)
(*   ran           the steps this call has run, in order                   *)
(*   prevFallback  the fingerprint and the record of the latest earlier    *)
(*                 call of _create_smart_fallback, and the step that made  *)
(*                 the call                                                *)
(***************************************************************************)
NoFallback == [hash |-> <<"-">>, record |-> JNull, via |-> "none"]

PipelineIdle ==
    /\ pc = "idle"
    /\ image_hash = <<>>
    /\ response_text = <<>>
    /\ result = JNull
    /\ accepted = JNull
    /\ builtBy = "none"
    /\ ran = <<>>
    /\ prevFallback = NoFallback

NoImage == [mode |-> "none", width |-> 0, height |-> 0]
NoSize == [width |-> 0, height |-> 0]

\* no image is being prepared
ImageIdle == image = NoImage /\ prepared = NoSize /\ ipc = "off"

\* no candidate is being validated
ValidatorIdle ==
    unvalidated = JNull /\ validated = JNull /\ revalidated = JNull /\ vpc = "off"

\* the browser sessions that call create_user
Sessions == {"s1", "s2"}

NoReply == [op |-> "none", username |-> "", date |-> 0,
            ok |-> FALSE, raised |-> FALSE, total_calories |-> 0,
            total_protein |-> 0, total_carbs |-> 0, total_fat |-> 0,
            meal_count |-> 0]
NotCreating == [at |-> "idle", username |-> "", email |-> "", password |-> "",
                existed |-> FALSE, success |-> FALSE, message |-> ""]
\* no script run has initialised st.session_state yet
FreshState == [initialised |-> FALSE, logged_in |-> FALSE, username |-> "None",
               user_data |-> "None", session_checked |-> FALSE]
\* a URL without query parameters; "" stands for a parameter that is not there
NoParams == [session_active |-> "", u |-> ""]

MealsIdle ==
    /\ daily_meals = <<>>
    /\ nutrition_logs = <<>>
    /\ today = 1
    /\ clock = 0
    /\ lastSaved = {}
    /\ logged = <<>>
    /\ reply = NoReply
AccountsIdle ==
    /\ users = <<>>
    /\ creating = [s \in Sessions |-> NotCreating]
SessionIdle ==
    /\ session_state = FreshState
    /\ query_params = NoParams
    /\ authenticated = {}
    /\ checks = 0
    /\ loggedOut = "no"
AppIdle == MealsIdle /\ AccountsIdle /\ SessionIdle

Init == PipelineIdle /\ ImageIdle /\ ValidatorIdle /\ AppIdle

\* a new call: the image is encoded and fingerprinted
UploadImage ==
    /\ pc = "idle"
    /\ \E h \in Fingerprints : image_hash' = h
    /\ pc' = "invoke"
    /\ response_text' = <<>>
    /\ result' = JNull
    /\ accepted' = JNull
    /\ builtBy' = "none"
    /\ ran' = <<>>
    /\ prevFallback' =
         IF builtBy = "smart_fallback"
         THEN [hash |-> image_hash, record |-> result, via |-> ran[Len(ran)]]
         ELSE prevFallback
    /\ UNCHANGED <<imageVars, validatorVars, appVars>>

\* self.llm.invoke returns a reply
InvokeModel ==
    /\ pc = "invoke"
    /\ \E text \in Texts : response_text' = text
    /\ pc' = "stage1"
    /\ ran' = Append(ran, "invoke")
    /\ UNCHANGED <<image_hash, result, accepted, builtBy, prevFallback>>
    /\ UNCHANGED <<imageVars, validatorVars, appVars>>

\* the outer except returning the fallback of the empty fingerprint
GatewayErrorWithoutFingerprint ==
    /\ pc = "invoke"
    /\ result' = _create_smart_fallback(<<>>)
    /\ builtBy' = "smart_fallback"
    /\ ran' = Append(ran, "gateway_error")
    /\ pc' = "done"
    /\ UNCHANGED <<image_hash, response_text, accepted, prevFallback>>
    /\ UNCHANGED <<imageVars, validatorVars, appVars>>

\* the outer except invoking the model a second time before it falls back
GatewayErrorRetrying ==
    /\ pc = "invoke"
    /\ ran' = Append(ran, "gateway_error")
    /\ IF ran = <<>>
       THEN /\ pc' = "invoke"
            /\ UNCHANGED <<result, builtBy>>
       ELSE /\ result' = _create_smart_fallback(image_hash)
            /\ builtBy' = "smart_fallback"
            /\ pc' = "done"
    /\ UNCHANGED <<image_hash, response_text, accepted, prevFallback>>
    /\ UNCHANGED <<imageVars, validatorVars, appVars>>

\* self.llm.invoke raises: the outer except returns the fallback
GatewayError ==
    /\ pc = "invoke"
    /\ result' = _create_smart_fallback(image_hash)
    /\ builtBy' = "smart_fallback"
    /\ ran' = Append(ran, "gateway_error")
    /\ pc' = "done"
    /\ UNCHANGED <<image_hash, response_text, accepted, prevFallback>>
    /\ UNCHANGED <<imageVars, validatorVars, appVars>>

\* what a stage of 1-3 does with the outcome of its parse attempts
StageStep(stage, attempt, noteText, tag, nextPc) ==
    /\ ran' = Append(ran, stage)
    /\ accepted' = attempt.candidate
    /\ CASE attempt.outcome = "record" ->
              /\ result' = Tagged(attempt.value, noteText, tag, image_hash)
              /\ builtBy' = stage
              /\ pc' = "done"
         [] attempt.outcome = "raised" ->
              /\ pc' = "parse_error"
              /\ UNCHANGED <<result, builtBy>>
         [] attempt.outcome = "next" ->
              /\ pc' = nextPc
              /\ UNCHANGED <<result, builtBy>>
    /\ UNCHANGED <<image_hash, response_text, prevFallback>>
    /\ UNCHANGED <<imageVars, validatorVars, appVars>>

\* the text stage 1 parses
ResponseCleaned(text) == RemoveFences(Strip(text))

\* Method 1: direct JSON parsing
DirectParse ==
    /\ pc = "stage1"
    /\ LET response_cleaned == ResponseCleaned(response_text)
           attempt == IF StartsWithBrace(response_cleaned) /\ EndsWithBrace(response_cleaned)
                      THEN TryCandidate(response_cleaned)
                      ELSE [outcome |-> "next", value |-> JNull, candidate |-> JNull]
       IN  StageStep("direct_json", attempt, "Direct JSON parse", "direct_json", "stage2")

\* Method 2: JSON between markdown code blocks
FencedParse ==
    /\ pc = "stage2"
    /\ StageStep("code_block_json", TryCandidates(FencedBlocks(response_text, 1)),
                 "Code block JSON parse", "code_block_json", "stage3")

\* Method 3: any JSON-like structure
BraceScanParse ==
    /\ pc = "stage3"
    /\ StageStep("pattern_json", TryCandidates(BraceMatches(response_text, 1)),
                 "Pattern match JSON parse", "pattern_json", "stage4")

\* the reply holds a general explanation instead of JSON
ExplanationReject ==
    /\ pc = "stage4"
    /\ ran' = Append(ran, "explanation_check")
    /\ IF ContainsKeyword(response_text)
       THEN /\ result' = _create_smart_fallback(image_hash)
            /\ builtBy' = "smart_fallback"
            /\ pc' = "done"
       ELSE /\ pc' = "stage5"
            /\ UNCHANGED <<result, builtBy>>
    /\ UNCHANGED <<image_hash, response_text, accepted, prevFallback>>
    /\ UNCHANGED <<imageVars, validatorVars, appVars>>

\* Method 4: smart extraction.  No statement of the try block of
\* _extract_from_llm_response raises on a str, so its except is not taken.
HeuristicExtract ==
    /\ pc = "stage5"
    /\ result' = _extract_from_llm_response(response_text, image_hash)
    /\ builtBy' = "extracted_llm"
    /\ ran' = Append(ran, "extracted_llm")
    /\ pc' = "done"
    /\ UNCHANGED <<image_hash, response_text, accepted, prevFallback>>
    /\ UNCHANGED <<imageVars, validatorVars, appVars>>

\* except Exception as parse_error
ParseErrorHandler ==
    /\ pc = "parse_error"
    /\ result' = _extract_from_llm_response(response_text, image_hash)
    /\ builtBy' = "extracted_llm"
    /\ ran' = Append(ran, "parse_error")
    /\ pc' = "done"
    /\ UNCHANGED <<image_hash, response_text, accepted, prevFallback>>
    /\ UNCHANGED <<imageVars, validatorVars, appVars>>

\* analyze_food has returned; the caller is ready for the next photo
Return ==
    /\ pc = "done"
    /\ pc' = "idle"
    /\ UNCHANGED <<image_hash, response_text, result, accepted, builtBy, ran,
                   prevFallback>>
    /\ UNCHANGED <<imageVars, validatorVars, appVars>>

Next ==
    \/ UploadImage
    \/ InvokeModel
    \/ GatewayError
    \/ DirectParse
    \/ FencedParse
    \/ BraceScanParse
    \/ ExplanationReject
    \/ HeuristicExtract
    \/ ParseErrorHandler
    \/ Return

Spec == Init /\ [][Next]_vars

Returned == pc = "done"

(***************************************************************************)
(* The image steps of analyze_food: _encode_image_to_base64 (line 296),    *)
(* _get_image_hash (line 299) and the outer except (lines 443-453), for    *)
(* an image that Image.open has decoded.                                   *)
(*   image     the mode and the size of the decoded image                  *)
(*   prepared  the size of the image _encode_image_to_base64 serialises    *)
(*             (NoSize while there is none)                                *)
(*   ipc       where the call stands:                                      *)
(*               "open"        the image is decoded, analyze_food entered  *)
(*               "encoded"     the payload is built                        *)
(*               "fingerprinted" image_hash is set; the model is invoked   *)
(*               "except"      the outer except has caught an exception    *)
(*               "returned"    the recovery pipeline returned its record   *)
(*               "returned_fallback" the outer except returned the         *)
(*                             fallback record                             *)
(*               "raised"      an exception has left analyze_food          *)
(***************************************************************************)
max_width == 800
max_height == 600

\* RGB, RGBA, palette and grayscale
ImageModes == {"RGB", "RGBA", "P", "L"}

\* the modes of ImageModes that PIL writes as JPEG; image.save(buffer,
\* format="JPEG") raises OSError (cannot write mode ... as JPEG) on the others
JpegModes == {"RGB", "L"}

Widths == {1, 2, 400, 800, 801, 1078, 1600, 4000}
Heights == {1, 300, 600, 601, 1109, 1200, 3000}

Images == [mode : ImageModes, width : Widths, height : Heights]

\* the larger of the two quotients taken for the scale factor
WidthBindsTakingLargerScale(w, h) == max_width * h >= max_height * w

\* max_width / width <= max_height / height: scale_factor is max_width / width
WidthBinds(w, h) == max_width * h <= max_height * w

\* The sizes of Widths x Heights for which the double product
\* width * scale_factor (height * scale_factor) lies below the exact product,
\* an integer there, so that int() yields one less than the exact floor.
ShortWidth ==
    {<<1078, 1>>, <<1078, 300>>, <<1078, 600>>, <<1078, 601>>}

ShortHeight ==
    {<<1, 1109>>, <<2, 1109>>, <<400, 1109>>, <<800, 1109>>, <<801, 1109>>,
     <<1078, 1109>>}

\* int(width * scale_factor)
new_width(w, h) ==
    (IF WidthBinds(w, h) THEN max_width ELSE (w * max_height) \div h)
        - (IF <<w, h>> \in ShortWidth THEN 1 ELSE 0)

\* int(height * scale_factor)
new_height(w, h) ==
    (IF WidthBinds(w, h) THEN (h * max_width) \div w ELSE max_height)
        - (IF <<w, h>> \in ShortHeight THEN 1 ELSE 0)

\* the size handed to image.resize, or the size of the image left as it is
PreparedSize(w, h) ==
    IF w > max_width \/ h > max_height
    THEN [width |-> new_width(w, h), height |-> new_height(w, h)]
    ELSE [width |-> w, height |-> h]

InitImage ==
    /\ PipelineIdle
    /\ ValidatorIdle
    /\ AppIdle
    /\ image \in Images
    /\ prepared = NoSize
    /\ ipc = "open"

\* _encode_image_to_base64(image): a copy converted to RGB, resized and saved
\* as JPEG; image.resize raises ValueError for a size with a zero
EncodeImage ==
    /\ ipc = "open"
    /\ LET size == PreparedSize(image.width, image.height)
       IN  IF size.width < 1 \/ size.height < 1
           THEN /\ ipc' = "except"
                /\ UNCHANGED prepared
           ELSE /\ ipc' = "encoded"
                /\ prepared' = size
    /\ UNCHANGED <<image, pipelineVars, validatorVars, appVars>>

\* image_hash = self._get_image_hash(image): the image as decoded, not the
\* converted copy, is saved as JPEG
FingerprintImage ==
    /\ ipc = "encoded"
    /\ ipc' = IF image.mode \in JpegModes THEN "fingerprinted" ELSE "except"
    /\ UNCHANGED <<image, prepared, pipelineVars, validatorVars, appVars>>

\* the model is invoked: a reply goes through the recovery pipeline, which
\* returns a record, or the invocation raises
AnalyseReply ==
    /\ ipc = "fingerprinted"
    /\ ipc' \in {"returned", "except"}
    /\ UNCHANGED <<image, prepared, pipelineVars, validatorVars, appVars>>

\* except Exception: return self._create_smart_fallback(
\* self._get_image_hash(image)) saves the image as JPEG once more
OuterExcept ==
    /\ ipc = "except"
    /\ ipc' = IF image.mode \in JpegModes THEN "returned_fallback" ELSE "raised"
    /\ UNCHANGED <<image, prepared, pipelineVars, validatorVars, appVars>>

NextImage ==
    \/ EncodeImage
    \/ FingerprintImage
    \/ AnalyseReply
    \/ OuterExcept

SpecImage == InitImage /\ [][NextImage]_vars

(***************************************************************************)
(* _validate_llm_result applied to a candidate dict, and applied once more *)
(* to what it returned.                                                    *)
(*   unvalidated  the candidate                                            *)
(*   validated    what the validator returned for the candidate            *)
(*   revalidated  what the validator returned for validated                *)
(*   vpc          "candidate", "validated", "revalidated"; "raised" and    *)
(*                "raised_again" where the first and the second call of    *)
(*                the validator raised                                     *)
(* The candidates hold each field of the validator absent, well-typed or   *)
(* wrong-typed; a total_calories that is a number is an int.               *)
(***************************************************************************)
\* stands for a key the candidate does not hold
Absent == [t |-> "absent", k |-> "", n |-> 0, s |-> "", l |-> <<>>]

FoodsChoices ==
    {Absent, JList(<<JStr("Nasi")>>),
     JList(<<JStr("Soto betawi"), JStr("Kerupuk")>>),
     JList(<<JStr("Nasi"), JStr("Ayam"), JStr("Tempe"), JStr("Sambal")>>),
     JList(<<>>), JStr("[Nasi]"), JList(<<JInt(1)>>)}

CaloriesChoices ==
    {Absent, JInt(0), JInt(24), JInt(600), JInt(1000), JInt(-5),
     JStr("500"), JStr("banyak"), JNull}

ConfidenceChoices == {Absent, JFloat(90), JStr("high")}

BreakdownChoices ==
    {Absent, JDict(<<Keyed("calories", JInt(100))>>), JStr("n/a")}

IndividualChoices ==
    {Absent,
     JList(<<JDict(<<Keyed("name", JStr("Nasi")), Keyed("calories", JInt(900))>>)>>),
     JNull}

TipsChoices == {Absent, JList(<<JStr("Makan sayur")>>), JStr("Makan sayur")}

ImageIdChoices == {Absent, JStr("zz")}

\* the dict of the members that are not Absent, in this order
MakeCandidate(foods, cal, conf, breakdown, individual, tips, id) ==
    JDict(SelectSeq(<<Keyed("foods_detected", foods),
                      Keyed("total_calories", cal),
                      Keyed("confidence_score", conf),
                      Keyed("nutritional_breakdown", breakdown),
                      Keyed("individual_foods", individual),
                      Keyed("health_tips", tips),
                      Keyed("image_id", id)>>,
                    LAMBDA m : m.t # "absent"))

Candidates ==
    {MakeCandidate(f, c, s, b, i, t, x) :
        f \in FoodsChoices, c \in CaloriesChoices, s \in ConfidenceChoices,
        b \in BreakdownChoices, i \in IndividualChoices, t \in TipsChoices,
        x \in ImageIdChoices}

InitValidator ==
    /\ PipelineIdle
    /\ ImageIdle
    /\ AppIdle
    /\ unvalidated \in Candidates
    /\ validated = JNull
    /\ revalidated = JNull
    /\ vpc = "candidate"

\* validated = _validate_llm_result(unvalidated)
ValidateCandidate ==
    /\ vpc = "candidate"
    /\ LET v == _validate_llm_result(unvalidated)
       IN  IF v.raised
           THEN /\ vpc' = "raised"
                /\ UNCHANGED validated
           ELSE /\ vpc' = "validated"
                /\ validated' = v.value
    /\ UNCHANGED <<unvalidated, revalidated, pipelineVars, imageVars, appVars>>

\* revalidated = _validate_llm_result(validated)
ValidateAgain ==
    /\ vpc = "validated"
    /\ LET v == _validate_llm_result(validated)
       IN  IF v.raised
           THEN /\ vpc' = "raised_again"
                /\ UNCHANGED revalidated
           ELSE /\ vpc' = "revalidated"
                /\ revalidated' = v.value
    /\ UNCHANGED <<unvalidated, validated, pipelineVars, imageVars, appVars>>

NextValidator ==
    \/ ValidateCandidate
    \/ ValidateAgain

SpecValidator == InitValidator /\ [][NextValidator]_vars

(***************************************************************************)
(* The daily meals and the nutrition logs of DatabaseManager.  A date is   *)
(* the number of its day, a timestamp the reading of a clock that ticks at *)
(* every save, a number a count of hundredths.                             *)
(***************************************************************************)
\* at most this many saves are made
MaxSaves == 3
\* the days the clock passes through
Days == {1, 2}

Usernames == {"ana", "budi"}
\* two of the three values of meal_type_map
MealTypes == {"breakfast", "dinner"}

\* an uploaded photo and the record analyze_food returned for it: a fallback
\* record, and a validated record whose nutritional_breakdown is the dict of
\* the model, which holds no macro
Uploads ==
    {[image_data |-> "photo-1",
      analysis_result |-> _create_smart_fallback(SampleHashes[1])],
     [image_data |-> "photo-2",
      analysis_result |->
          Tagged(_validate_llm_result(
                     MakeCandidate(JList(<<JStr("Nasi")>>), JInt(600), Absent,
                                   JDict(<<Keyed("calories", JInt(100))>>),
                                   Absent, JList(<<JStr("Makan sayur")>>),
                                   Absent)).value,
                 "Analisis AI berhasil", "direct_json", SampleHashes[2])]}

\* update_one with upsert that inserts even when a document matches
UpsertAlwaysInserting(coll, doc) == Append(coll, doc)

\* update_one({username, date, meal_type}, {"$set": doc}, upsert=True): the
\* first document that matches takes the fields of doc; with no match doc is
\* inserted
Upsert(coll, doc) ==
    LET matches == {i \in 1..Len(coll) :
                       /\ coll[i].username = doc.username
                       /\ coll[i].date = doc.date
                       /\ coll[i].meal_type = doc.meal_type}
    IN  IF matches = {} THEN Append(coll, doc)
        ELSE [coll EXCEPT ![CHOOSE i \in matches : \A j \in matches : i <= j] = doc]

\* .sort("timestamp", 1)
RECURSIVE SortByTimestamp(_)
SortByTimestamp(docs) ==
    IF docs = {} THEN <<>>
    ELSE LET first == CHOOSE d \in docs : \A e \in docs : d.timestamp <= e.timestamp
         IN  <<first>> \o SortByTimestamp(docs \ {first})

get_daily_meals(username, target_date) ==
    SortByTimestamp({daily_meals[i] : i \in
        {j \in 1..Len(daily_meals) :
            /\ daily_meals[j].username = username
            /\ daily_meals[j].date = target_date}})

\* d.get(key, 0)
GetOrZero(d, key) == IF Has(d, key) THEN Get(d, key) ELSE JInt(0)

Hundredths(v) == IF v.t = "int" THEN v.n * 100 ELSE v.n

\* the body of the loop over the meals: += raises TypeError when the value
\* added to the number is not a number
RECURSIVE SumMeals(_, _)
SumMeals(meals, acc) ==
    IF meals = <<>> \/ acc.raised THEN acc
    ELSE LET res == Head(meals).analysis_result
             cal == GetOrZero(res, "total_calories")
             nutrition == IF Has(res, "nutritional_breakdown")
                          THEN Get(res, "nutritional_breakdown") ELSE JDict(<<>>)
             protein == GetOrZero(nutrition, "protein")
             carbs == GetOrZero(nutrition, "carbohydrates")
             fat == GetOrZero(nutrition, "fat")
         IN  IF \/ nutrition.t # "dict"
                \/ \E v \in {cal, protein, carbs, fat} : ~IsNumber(v)
             THEN [acc EXCEPT !.raised = TRUE]
             ELSE SumMeals(Tail(meals),
                      [acc EXCEPT !.total_calories = @ + Hundredths(cal),
                                  !.total_protein = @ + Hundredths(protein),
                                  !.total_carbs = @ + Hundredths(carbs),
                                  !.total_fat = @ + Hundredths(fat)])

get_daily_nutrition_summary(username, target_date) ==
    LET meals == get_daily_meals(username, target_date)
    IN  SumMeals(meals, [NoReply EXCEPT !.op = "get_daily_nutrition_summary",
                                        !.username = username,
                                        !.date = target_date,
                                        !.ok = TRUE,
                                        !.meal_count = Len(meals)])

SameSlot(d, e) ==
    /\ d.username = e.username
    /\ d.date = e.date
    /\ d.meal_type = e.meal_type

InitMeals ==
    /\ PipelineIdle
    /\ ImageIdle
    /\ ValidatorIdle
    /\ AppIdle

\* save_daily_meal(username, meal_type, image_data, analysis_result); the
\* update either succeeds or raises, and a save that raises stores nothing
SaveDailyMeal ==
    /\ clock < MaxSaves
    /\ \E username \in Usernames, meal_type \in MealTypes, up \in Uploads,
          ok \in BOOLEAN :
          LET meal_data == [username |-> username,
                            date |-> today,
                            meal_type |-> meal_type,
                            image_data |-> up.image_data,
                            analysis_result |-> up.analysis_result,
                            timestamp |-> clock + 1]
          IN  /\ daily_meals' = IF ok THEN Upsert(daily_meals, meal_data)
                                ELSE daily_meals
              /\ lastSaved' = IF ok
                              THEN {d \in lastSaved : ~SameSlot(d, meal_data)}
                                       \cup {meal_data}
                              ELSE lastSaved
              /\ reply' = [NoReply EXCEPT !.op = "save_daily_meal",
                                          !.username = username,
                                          !.date = today,
                                          !.ok = ok]
    /\ clock' = clock + 1
    /\ UNCHANGED <<nutrition_logs, today, logged>>
    /\ UNCHANGED <<pipelineVars, imageVars, validatorVars, accountVars, sessionVars>>

\* save_nutrition_log(username, image_data, analysis_result)
SaveNutritionLog ==
    /\ clock < MaxSaves
    /\ \E username \in Usernames, up \in Uploads, ok \in BOOLEAN :
          LET log == [username |-> username,
                      image_data |-> up.image_data,
                      analysis_result |-> up.analysis_result,
                      timestamp |-> clock + 1]
          IN  /\ nutrition_logs' = IF ok THEN Append(nutrition_logs, log)
                                   ELSE nutrition_logs
              /\ logged' = IF ok THEN Append(logged, log) ELSE logged
              /\ reply' = [NoReply EXCEPT !.op = "save_nutrition_log",
                                          !.username = username,
                                          !.date = today,
                                          !.ok = ok]
    /\ clock' = clock + 1
    /\ UNCHANGED <<daily_meals, today, lastSaved>>
    /\ UNCHANGED <<pipelineVars, imageVars, validatorVars, accountVars, sessionVars>>

\* get_daily_nutrition_summary(username, target_date)
GetDailyNutritionSummary ==
    /\ \E username \in Usernames, target_date \in 1..today :
          reply' = get_daily_nutrition_summary(username, target_date)
    /\ UNCHANGED <<daily_meals, nutrition_logs, today, clock, lastSaved, logged>>
    /\ UNCHANGED <<pipelineVars, imageVars, validatorVars, accountVars, sessionVars>>

\* date.today() moves to the next day
Midnight ==
    /\ today + 1 \in Days
    /\ today' = today + 1
    /\ UNCHANGED <<daily_meals, nutrition_logs, clock, lastSaved, logged, reply>>
    /\ UNCHANGED <<pipelineVars, imageVars, validatorVars, accountVars, sessionVars>>

NextMeals ==
    \/ SaveDailyMeal
    \/ SaveNutritionLog
    \/ GetDailyNutritionSummary
    \/ Midnight

SpecMeals == InitMeals /\ [][NextMeals]_vars

(***************************************************************************)
(* The users collection: create_user called by the register pages of       *)
(* concurrent browser sessions.  A call is two requests to the database,   *)
(* find_one and insert_one, and the requests of the sessions interleave.   *)
(***************************************************************************)
\* create_user is not called once the accounts and the calls in flight
\* reach this number
MaxAccounts == 3

Emails == {"ana@mail.id", "budi@mail.id"}
Passwords == {"rahasia", "tebakan"}

\* bcrypt.hashpw(password, bcrypt.gensalt()): the digest keeps the salt and
\* is not the password
hashpw(password, salt) == [salt |-> salt, digest |-> <<"bcrypt", salt, password>>]
\* bcrypt.checkpw(password, hashed)
checkpw(password, hashed) == hashpw(password, hashed.salt) = hashed

\* users.find_one({"$or": [{"username": username}, {"email": email}]})
FindByUsernameOrEmail(username, email) ==
    \E i \in 1..Len(users) :
        users[i].username = username \/ users[i].email = email

InFlight == {s \in Sessions : creating[s].at = "hashed"}

InitAccounts ==
    /\ PipelineIdle
    /\ ImageIdle
    /\ ValidatorIdle
    /\ AppIdle

\* create_user up to the insert: the session asks the database whether the
\* username or the email exists
FindExisting(s) ==
    /\ creating[s].at = "idle"
    /\ Len(users) + Cardinality(InFlight) < MaxAccounts
    /\ \E username \in Usernames, email \in Emails :
          LET existed == FindByUsernameOrEmail(username, email)
              call == [NotCreating EXCEPT !.username = username,
                                          !.email = email,
                                          !.password = "rahasia",
                                          !.existed = existed]
          IN  creating' = [creating EXCEPT ![s] =
                  IF existed
                  THEN [call EXCEPT !.at = "returned",
                                    !.message = "Username or email already exists"]
                  ELSE [call EXCEPT !.at = "hashed"]]
    /\ UNCHANGED users
    /\ UNCHANGED <<pipelineVars, imageVars, validatorVars, mealVars, sessionVars>>

\* users.insert_one(user_data) and the return of create_user; the insert
\* either succeeds or raises
InsertUser(s) ==
    /\ creating[s].at = "hashed"
    /\ \E ok \in BOOLEAN :
          /\ users' = IF ok
                      THEN Append(users,
                               [username |-> creating[s].username,
                                email |-> creating[s].email,
                                password |-> hashpw(creating[s].password, "salt-1")])
                      ELSE users
          /\ creating' = [creating EXCEPT ![s] =
                  [@ EXCEPT !.at = "returned",
                            !.success = ok,
                            !.message = IF ok THEN "User created successfully"
                                        ELSE "Error creating user"]]
    /\ UNCHANGED <<pipelineVars, imageVars, validatorVars, mealVars, sessionVars>>

\* register_page has shown the message; the form can be submitted again
ShowMessage(s) ==
    /\ creating[s].at = "returned"
    /\ creating' = [creating EXCEPT ![s] = NotCreating]
    /\ UNCHANGED users
    /\ UNCHANGED <<pipelineVars, imageVars, validatorVars, mealVars, sessionVars>>

NextAccounts ==
    \E s \in Sessions :
        \/ FindExisting(s)
        \/ InsertUser(s)
        \/ ShowMessage(s)

SpecAccounts == InitAccounts /\ [][NextAccounts]_vars

(***************************************************************************)
(* The login state of a browser session of app.py.  Every interaction is a *)
(* run of the script: the lines that initialise st.session_state and check *)
(* the persistent session, then the page.  Opening a URL starts a session  *)
(* with an empty st.session_state and the query parameters of the URL.     *)
(***************************************************************************)
\* the accounts of the users collection while the sessions are observed
RegisteredUsers ==
    << [username |-> "ana", email |-> "ana@mail.id",
        password |-> hashpw("rahasia", "salt-1")],
       [username |-> "budi", email |-> "budi@mail.id",
        password |-> hashpw("rahasia", "salt-2")] >>

\* what is typed into the Username field or written into the parameter u;
\* "hantu" has no account
TypedUsernames == Usernames \cup {"hantu"}

\* the query parameters a URL can carry
UrlParams ==
    [session_active : {"", "true", "1"}, u : {""} \cup TypedUsernames]

\* users.find_one({"username": username}): the username of the account
\* stands for the document, "None" for no document
FindUser(username) ==
    IF \E i \in 1..Len(users) : users[i].username = username
    THEN username ELSE "None"

\* authenticate_user(username, password)
authenticate_user(username, password) ==
    IF \E i \in 1..Len(users) :
           /\ users[i].username = username
           /\ checkpw(password, users[i].password)
    THEN [success |-> TRUE, user_data |-> username]
    ELSE [success |-> FALSE, user_data |-> "None"]

\* check_persistent_session(); a find_one that raises is swallowed
check_persistent_session(state, params, db_up) ==
    IF params.session_active # "" /\ params.u # ""
       /\ db_up /\ FindUser(params.u) # "None"
    THEN [state EXCEPT !.logged_in = TRUE,
                       !.username = params.u,
                       !.user_data = FindUser(params.u)]
    ELSE state

\* the keys the first run of the script sets
Initialised(state) ==
    IF state.initialised THEN state ELSE [FreshState EXCEPT !.initialised = TRUE]

\* the top of the script with the check made whenever the session is not
\* logged in
BootstrapWithoutGuard(state, params, db_up) ==
    IF ~Initialised(state).logged_in
    THEN [state |-> [check_persistent_session(Initialised(state), params, db_up)
                        EXCEPT !.session_checked = TRUE],
          checked |-> 1]
    ELSE [state |-> Initialised(state), checked |-> 0]

\* the top of the script: the state after it, and whether
\* check_persistent_session was called
Bootstrap(state, params, db_up) ==
    IF ~Initialised(state).logged_in /\ ~Initialised(state).session_checked
    THEN [state |-> [check_persistent_session(Initialised(state), params, db_up)
                        EXCEPT !.session_checked = TRUE],
          checked |-> 1]
    ELSE [state |-> Initialised(state), checked |-> 0]

\* clear_persistent_session(): the state and the query parameters after it
clear_persistent_session(state) ==
    [state |-> [state EXCEPT !.logged_in = FALSE,
                             !.username = "None",
                             !.user_data = "None"],
     params |-> NoParams]

InitSession ==
    /\ PipelineIdle
    /\ ImageIdle
    /\ ValidatorIdle
    /\ MealsIdle
    /\ users = RegisteredUsers
    /\ creating = [s \in Sessions |-> NotCreating]
    /\ SessionIdle

\* still logged out since the logout of this session
StillLoggedOut == IF loggedOut = "no" THEN "no" ELSE "stayed"

\* the browser opens the app at a URL, or refreshes the page it shows: a new
\* session and its first run
OpenUrl ==
    /\ \E params \in UrlParams, db_up \in BOOLEAN :
          LET top == Bootstrap(FreshState, params, db_up)
          IN  /\ session_state' = top.state
              /\ query_params' = params
              /\ checks' = top.checked
    /\ loggedOut' = "no"
    /\ UNCHANGED authenticated
    /\ UNCHANGED <<pipelineVars, imageVars, validatorVars, mealVars, accountVars>>

\* a widget other than the login form and the Logout button reruns the
\* script
Rerun ==
    /\ session_state.initialised
    /\ \E db_up \in BOOLEAN :
          LET top == Bootstrap(session_state, query_params, db_up)
          IN  /\ session_state' = top.state
              /\ checks' = checks + top.checked
    /\ loggedOut' = StillLoggedOut
    /\ UNCHANGED <<query_params, authenticated>>
    /\ UNCHANGED <<pipelineVars, imageVars, validatorVars, mealVars, accountVars>>

\* the login form is submitted: the run that handles it and, after a
\* successful login, the run st.rerun() starts
SubmitLogin ==
    /\ session_state.initialised
    /\ ~session_state.logged_in
    /\ \E username \in TypedUsernames, password \in Passwords,
          remember_me \in BOOLEAN, db_up \in BOOLEAN :
          LET top == Bootstrap(session_state, query_params, db_up)
              auth == authenticate_user(username, password)
              in == [top.state EXCEPT !.logged_in = TRUE,
                                      !.username = username,
                                      !.user_data = auth.user_data]
              again == Bootstrap(in, query_params, db_up)
          IN  IF top.state.logged_in
              THEN \* main_app is shown, the form is not
                   /\ session_state' = top.state
                   /\ checks' = checks + top.checked
                   /\ loggedOut' = StillLoggedOut
                   /\ UNCHANGED <<query_params, authenticated>>
              ELSE IF auth.success
              THEN /\ session_state' = again.state
                   /\ query_params' = IF remember_me
                                      THEN [session_active |-> "true", u |-> username]
                                      ELSE query_params
                   /\ authenticated' = authenticated \cup {username}
                   /\ checks' = checks + top.checked + again.checked
                   /\ loggedOut' = "no"
              ELSE /\ session_state' = top.state
                   /\ checks' = checks + top.checked
                   /\ loggedOut' = StillLoggedOut
                   /\ UNCHANGED <<query_params, authenticated>>
    /\ UNCHANGED <<pipelineVars, imageVars, validatorVars, mealVars, accountVars>>

\* the Logout button is clicked: the run that handles it and the run
\* st.rerun() starts
Logout ==
    /\ session_state.initialised
    /\ session_state.logged_in
    /\ \E db_up \in BOOLEAN :
          LET top == Bootstrap(session_state, query_params, db_up)
              out == clear_persistent_session(top.state)
              again == Bootstrap(out.state, out.params, db_up)
          IN  /\ session_state' = again.state
              /\ query_params' = out.params
              /\ checks' = checks + top.checked + again.checked
    /\ loggedOut' = "cleared"
    /\ UNCHANGED authenticated
    /\ UNCHANGED <<pipelineVars, imageVars, validatorVars, mealVars, accountVars>>

NextSession ==
    \/ OpenUrl
    \/ Rerun
    \/ SubmitLogin
    \/ Logout

SpecSession == InitSession /\ [][NextSession]_vars

(***************************************************************************)
(* Properties of the recovery pipeline.                                    *)
(***************************************************************************)
SourceTags == {"direct_json", "code_block_json", "pattern_json",
               "extracted_llm", "smart_fallback"}

JsonStages == {"direct_json", "code_block_json", "pattern_json"}

MidCall == {"stage1", "stage2", "stage3", "stage4", "stage5", "parse_error"}

RequiredFields == {"foods_detected", "total_calories", "nutritional_breakdown",
                   "individual_foods", "health_tips", "confidence_score",
                   "analysis_source", "note", "image_id"}

\* the reply is itself a JSON object that passes the shape check
IsShapedObject(text) ==
    JsonLoads(text).ok /\ _is_valid_nutrition_result(JsonLoads(text).value)

\* C1: whatever the reply text and the fingerprint, the recovery part of
\* analyze_food runs its steps at most once each, an exception raised in a
\* stage is handled inside the call, and the record returned has a non-empty
\* foods_detected list and a numeric total_calories.
RecoveryIsTotal ==
    /\ pc \in {"idle", "invoke", "done"} \cup MidCall
    /\ Len(ran) <= 6
    /\ pc = "parse_error" => result = JNull
    /\ (Returned \/ pc = "idle") => (ran # <<>> => result # JNull)
    /\ Returned =>
         /\ result.t = "dict"
         /\ Has(result, "foods_detected")
         /\ Get(result, "foods_detected").t = "list"
         /\ Len(Get(result, "foods_detected").l) > 0
         /\ Has(result, "total_calories")
         /\ IsNumber(Get(result, "total_calories"))

\* C1 witness: a reply of malformed JSON (the closing brace is missing) has
\* been recovered into a returned record.
RecoveredMalformedReply ==
    /\ Returned
    /\ response_text = <<LB, FoodsNasi, COMMA, Cal500>>
    /\ result.t = "dict"

\* C2: a reply that is itself a JSON object with a non-empty foods_detected
\* list and a total_calories key is returned by the first stage: the record
\* is tagged direct_json and no later stage has run.
DirectJsonWinsForShapedObject ==
    (Returned /\ ran # <<"gateway_error">> /\ IsShapedObject(response_text))
        => /\ Get(result, "analysis_source").s = "direct_json"
           /\ ran = <<"invoke", "direct_json">>

\* C3: a reply of leading prose followed by a fenced block whose contents
\* are a JSON object passing the shape check is tagged code_block_json.
FencedBlockAfterProseIsCodeBlockJson ==
    \A b \in Objects :
        ( /\ Returned
          /\ response_text = <<ProseS, WS, FENCE, LANG, WS>> \o b \o <<WS, FENCE>>
          /\ IsShapedObject(b) )
        => Get(result, "analysis_source").s = "code_block_json"

\* C4: a reply that, with surrounding whitespace and the fence markers
\* removed, begins with an opening brace, ends with a closing brace and
\* parses to an object passing the shape check is returned by stage 1,
\* tagged direct_json.  Stated here for the objects on which the validator
\* completes.
FenceStrippedObjectIsDirectJson ==
    LET bare == Strip(RemoveFences(Strip(response_text)))
    IN  ( /\ Returned
          /\ ran # <<"gateway_error">>
          /\ StartsWithBrace(bare)
          /\ EndsWithBrace(bare)
          /\ IsShapedObject(bare)
          /\ ~_validate_llm_result(JsonLoads(bare).value).raised )
        => /\ builtBy = "direct_json"
           /\ Get(result, "analysis_source").s = "direct_json"

\* C5: when the reply holds a refusal/explanation phrase and none of stages
\* 1-3 returned a record, the record returned is the deterministic fallback,
\* tagged smart_fallback, and heuristic extraction has not run.
ExplanationGoesToFallback ==
    ( /\ Returned
      /\ ran # <<"gateway_error">>
      /\ ContainsKeyword(response_text)
      /\ builtBy \notin JsonStages )
    => /\ builtBy = "smart_fallback"
       /\ Get(result, "analysis_source").s = "smart_fallback"
       /\ \A i \in 1..Len(ran) : ran[i] \notin {"extracted_llm", "parse_error"}

\* 16^(8-i) modulo 7, for the digit at position i of a fingerprint
HexWeightMod7 == <<2, 1, 4, 2, 1, 4, 2, 1>>

\* the fingerprint read as a base-16 number, modulo 7, digit by digit
RECURSIVE WeightedDigitSum(_, _)
WeightedDigitSum(hash, i) ==
    IF i > Len(hash) THEN 0
    ELSE HexDigitValue(hash[i]) * HexWeightMod7[i] + WeightedDigitSum(hash, i + 1)

\* C6: the record of the deterministic fallback is a function of the
\* fingerprint alone: it holds the three food names and the calories of the
\* table entry at index (fingerprint as a base-16 number, 0 for the empty
\* fingerprint) modulo the table length 7, and it equals the record the
\* latest earlier fallback call returned for the same fingerprint, whatever
\* the reply text of either call.
FallbackIsFunctionOfFingerprint ==
    /\ Len(food_combinations) = 7
    /\ Get(_create_smart_fallback(<<>>), "foods_detected").l[1].s = food_combinations[1][1]
    /\ (Returned /\ builtBy = "smart_fallback") =>
         LET entry == food_combinations[(WeightedDigitSum(image_hash, 1) % 7) + 1]
         IN  /\ Len(image_hash) = HashLen
             /\ Get(result, "foods_detected") =
                  Keyed("foods_detected",
                        JList(<<JStr(entry[1]), JStr(entry[2]), JStr(entry[3])>>))
             /\ Get(result, "total_calories").n = entry[4]
             /\ prevFallback.hash = image_hash => result = prevFallback.record

\* C6 witness: the fallback has returned a record for a fingerprint for
\* which an earlier call had already fallen back, this time after a reply.
FallbackRepeatedForFingerprint ==
    /\ Returned
    /\ builtBy = "smart_fallback"
    /\ prevFallback.hash = image_hash
    /\ response_text # <<>>

\* C7: every record analyze_food returns holds the full field set, and its
\* image_id is the fingerprint of the analysed image.
ReturnedRecordIsComplete ==
    Returned =>
        /\ \A f \in RequiredFields : Has(result, f)
        /\ Get(result, "image_id").s = Concat(image_hash)

\* C8: the analysis_source of every returned record is one of the five tags
\* and names the stage that built the record, also when the object of the
\* model carries an analysis_source, a note or an image_id of its own and
\* when the validator raised in a stage and the handler built the record.
SourceTagNamesBuilder ==
    Returned =>
        /\ Has(result, "analysis_source")
        /\ Get(result, "analysis_source").t = "str"
        /\ Get(result, "analysis_source").s \in SourceTags
        /\ Get(result, "analysis_source").s = builtBy
        /\ builtBy = (IF ran[Len(ran)] \in {"gateway_error", "explanation_check"}
                      THEN "smart_fallback"
                      ELSE IF ran[Len(ran)] = "parse_error" THEN "extracted_llm"
                      ELSE ran[Len(ran)])

\* C8 witness: stage 1 has returned a record for an object of the model
\* that carries an analysis_source of its own.
DirectRecordFromObjectWithOwnTag ==
    /\ Returned
    /\ builtBy = "direct_json"
    /\ Has(accepted, "analysis_source")
    /\ Get(accepted, "analysis_source").s = "smart_fallback"

\* C9: the total_calories of every returned record is a number greater
\* than zero.
TotalCaloriesPositive ==
    Returned =>
        /\ IsNumber(Get(result, "total_calories"))
        /\ Get(result, "total_calories").n > 0

\* the strings float() accepts
NumericStrings == {"500"}

Coercible(v) == IsNumber(v) \/ (v.t = "str" /\ v.s \in NumericStrings)

RECURSIVE SumCalories(_)
SumCalories(entries) ==
    IF entries = <<>> THEN 0
    ELSE Get(Head(entries), "calories").n + SumCalories(Tail(entries))

\* C11: in every returned record the calories of the individual_foods
\* entries sum to at most total_calories, whether the list came with the
\* object of the model, from the validator, from heuristic extraction or from
\* the fallback.  Stated here for the records whose total_calories is
\* greater than zero.
PortionsWithinTotal ==
    (Returned /\ Get(result, "total_calories").n > 0)
        => SumCalories(Get(result, "individual_foods").l)
               <= Get(result, "total_calories").n

\* C12: when the model invocation raises, the call ends with a returned
\* record and no other step: the record of the deterministic fallback for
\* the fingerprint of the image, equal to the record an earlier call returned
\* for the same fingerprint when its reply held an explanation phrase.
GatewayFailureConvergesOnFallback ==
    /\ \A i \in 1..Len(ran) : ran[i] = "gateway_error" => (Len(ran) = 1 /\ pc \in {"done", "idle"})
    /\ (Returned /\ ran = <<"gateway_error">>) =>
          /\ result.t = "dict"
          /\ Get(result, "analysis_source").s = "smart_fallback"
          /\ Get(result, "note").s =
                "Analisis konsisten berdasarkan foto (ID: " \o Concat(image_hash) \o ")"
          /\ (prevFallback.hash = image_hash /\ prevFallback.via = "explanation_check")
                => result = prevFallback.record

\* C12 witness: the invocation raised for an image whose fingerprint an
\* earlier call had fallen back for after an explanation reply.
GatewayFallbackAfterExplanationFallback ==
    /\ Returned
    /\ ran = <<"gateway_error">>
    /\ prevFallback.hash = image_hash
    /\ prevFallback.via = "explanation_check"

\* C13: for every decoded image, whatever its color mode, analyze_food
\* returns a record: no exception leaves the call.  Stated here for the
\* images whose payload _encode_image_to_base64 has built.
EveryDecodedImageIsAnalysed == prepared # NoSize => ipc # "raised"

\* the fields the validator completes, and what it takes for well-typed
ValidatorFields == {"foods_detected", "total_calories", "confidence_score",
                    "nutritional_breakdown", "individual_foods", "health_tips"}

WellTyped(m) ==
    CASE m.k \in {"foods_detected", "individual_foods", "health_tips"} -> m.t = "list"
      [] m.k = "total_calories" -> m.t \in {"int", "float"}
      [] m.k = "nutritional_breakdown" -> m.t = "dict"
      [] OTHER -> TRUE

IsComplete(r) ==
    /\ \A f \in ValidatorFields : Has(r, f)
    /\ \A i \in 1..Len(r.l) : WellTyped(r.l[i])

\* C14: the validator is idempotent: applied to what it returned for a
\* candidate it completes and returns the same record, and a candidate that
\* is already complete is returned unchanged.
ValidatorIsIdempotent ==
    /\ vpc # "raised_again"
    /\ vpc = "revalidated" => revalidated = validated
    /\ (vpc \in {"validated", "revalidated"} /\ IsComplete(unvalidated))
          => validated = unvalidated

\* C14 witness: the validator has been applied a second time to a record
\* whose fields it had derived itself.
RevalidatedDerivedRecord ==
    /\ vpc = "revalidated"
    /\ ~Has(unvalidated, "nutritional_breakdown")
    /\ ~Has(unvalidated, "individual_foods")
    /\ ~Has(unvalidated, "health_tips")

\* C15: the validator keeps every member of the candidate that is well-typed
\* or is not one of its six fields, value and position, and the only keys it
\* adds are those of its six fields.
ValidatorKeepsWellTypedFields ==
    vpc = "validated" =>
        /\ Len(validated.l) >= Len(unvalidated.l)
        /\ \A i \in 1..Len(unvalidated.l) :
              /\ validated.l[i].k = unvalidated.l[i].k
              /\ WellTyped(unvalidated.l[i]) => validated.l[i] = unvalidated.l[i]
        /\ \A j \in (Len(unvalidated.l) + 1)..Len(validated.l) :
              validated.l[j].k \in ValidatorFields

\* C15 witness: a candidate holding a confidence_score, a breakdown dict and
\* an image_id of its own, and no individual_foods, has been validated.
ValidatedPartialCandidate ==
    /\ vpc = "validated"
    /\ Has(unvalidated, "confidence_score")
    /\ Has(unvalidated, "nutritional_breakdown")
    /\ Get(unvalidated, "nutritional_breakdown").t = "dict"
    /\ Has(unvalidated, "image_id")
    /\ ~Has(unvalidated, "individual_foods")

\* C16: for a candidate whose foods_detected is absent, an empty list or not
\* a list, the validated record holds the one-element placeholder list; so
\* the foods_detected of a validated record is never empty.
ValidatorFoodsNeverEmpty ==
    vpc = "validated" =>
        /\ ( \/ ~Has(unvalidated, "foods_detected")
             \/ Get(unvalidated, "foods_detected").t # "list"
             \/ Get(unvalidated, "foods_detected").l = <<>> )
           => Get(validated, "foods_detected") =
                 Keyed("foods_detected", JList(<<JStr("Makanan dari analisis AI")>>))
        /\ Get(validated, "foods_detected").t = "list"
        /\ Len(Get(validated, "foods_detected").l) > 0

\* C17: for a candidate with no nutritional_breakdown, the breakdown of the
\* validated record is derived from its total_calories c, for c not negative:
\* calories is c, protein floor(c * 0.16 / 4), carbohydrates
\* floor(c * 0.54 / 4), fat floor(c * 0.30 / 9), fiber the larger of 4 and
\* floor(c / 120), sugar the larger of 3 and floor(c / 150), the last five
\* written as the integer followed by g; c = 600 gives protein 24g, fat 20g.
MacrosDerivedFromCalories ==
    ( /\ vpc = "validated"
      /\ ~Has(unvalidated, "nutritional_breakdown")
      /\ Get(validated, "total_calories").n >= 0 )
    => LET c == Get(validated, "total_calories").n
           bd == Get(validated, "nutritional_breakdown")
       IN  /\ bd.t = "dict"
           /\ Len(bd.l) = 6
           /\ Get(bd, "calories") = Keyed("calories", JInt(c))
           /\ \E g \in 0..c : /\ 25 * g <= c /\ c < 25 * (g + 1)
                              /\ Get(bd, "protein").s = IntToStr(g) \o "g"
           /\ \E g \in 0..c : /\ 200 * g <= 27 * c /\ 27 * c < 200 * (g + 1)
                              /\ Get(bd, "carbohydrates").s = IntToStr(g) \o "g"
           /\ \E g \in 0..c : /\ 30 * g <= c /\ c < 30 * (g + 1)
                              /\ Get(bd, "fat").s = IntToStr(g) \o "g"
           /\ \E g \in 0..c : /\ 120 * g <= c /\ c < 120 * (g + 1)
                              /\ Get(bd, "fiber").s =
                                    IntToStr(IF g > 4 THEN g ELSE 4) \o "g"
           /\ \E g \in 0..c : /\ 150 * g <= c /\ c < 150 * (g + 1)
                              /\ Get(bd, "sugar").s =
                                    IntToStr(IF g > 3 THEN g ELSE 3) \o "g"
           /\ c = 600 => /\ Get(bd, "protein").s = "24g"
                         /\ Get(bd, "fat").s = "20g"

\* C17 witness: a candidate with total_calories 600 and no breakdown has
\* been validated.
ValidatedSixHundredCalories ==
    /\ vpc = "validated"
    /\ ~Has(unvalidated, "nutritional_breakdown")
    /\ Has(unvalidated, "total_calories")
    /\ Get(unvalidated, "total_calories") = Keyed("total_calories", JInt(600))

InvocationSteps == {"invoke", "gateway_error"}

Invocations(steps) ==
    Cardinality({i \in 1..Len(steps) : steps[i] \in InvocationSteps})

\* C19: during one call the model is invoked at most once, on every path;
\* once the call is past the invocation it has been invoked exactly once, and
\* every recovery stage works on the reply of that one invocation: the reply
\* text does not change while the stages run.
ModelInvokedAtMostOnce ==
    [][ /\ Invocations(ran') <= 1
        /\ pc' \in MidCall \cup {"done"} => Invocations(ran') = 1
        /\ pc \in MidCall => response_text' = response_text ]_vars

\* C19 witness: one reply has gone through every recovery stage down to
\* heuristic extraction.
OneReplyThroughAllStages ==
    /\ Returned
    /\ ran = <<"invoke", "direct_json", "code_block_json", "pattern_json",
               "explanation_check", "extracted_llm">>

\* C20: for a candidate whose total_calories is absent or not a number (a
\* string, also one of digits, or null), the validated record has
\* total_calories 450, and the breakdown and the individual_foods derived in
\* the same call are computed from 450.
ValidatorDefaultsCaloriesTo450 ==
    ( /\ vpc = "validated"
      /\ \/ ~Has(unvalidated, "total_calories")
         \/ Get(unvalidated, "total_calories").t \notin {"int", "float"} )
    => /\ Get(validated, "total_calories") = Keyed("total_calories", JInt(450))
       /\ ~Has(unvalidated, "nutritional_breakdown") =>
             LET bd == Get(validated, "nutritional_breakdown")
             IN  /\ Get(bd, "calories").n = 450
                 /\ Get(bd, "protein").s = "18g"
                 /\ Get(bd, "carbohydrates").s = "60g"
                 /\ Get(bd, "fat").s = "15g"
       /\ ( /\ ~Has(unvalidated, "individual_foods")
            /\ Get(validated, "foods_detected").l # <<>> ) =>
             LET first == Get(validated, "individual_foods").l[1]
             IN  /\ Get(first, "calories").n = 270
                 /\ Get(first, "protein").s = "10g"
                 /\ Get(first, "carbs").s = "37g"
                 /\ Get(first, "fat").s = "9g"

\* C20 witness: a candidate whose total_calories is the string 500, with no
\* breakdown and no individual_foods, has been validated.
ValidatedNumericStringCalories ==
    /\ vpc = "validated"
    /\ Has(unvalidated, "total_calories")
    /\ Get(unvalidated, "total_calories") = Keyed("total_calories", JStr("500"))
    /\ ~Has(unvalidated, "nutritional_breakdown")
    /\ ~Has(unvalidated, "individual_foods")

\* C28: whenever an image of width w >= 1 and height h >= 1 is resized
\* (w > 800 or h > 600), both dimensions handed to image.resize are at least
\* 1 pixel.
ResizeKeepsOnePixel ==
    ( /\ ipc \notin {"off", "open"}
      /\ (image.width > 800 \/ image.height > 600) )
    => /\ PreparedSize(image.width, image.height).width >= 1
       /\ PreparedSize(image.width, image.height).height >= 1

\* a candidate of stage 2 or 3 parses and passes the shape check
Passes(cand) == IsShapedObject(Strip(cand))

\* the index of the first candidate that parses and passes the shape check,
\* 0 if there is none
FirstPassing(cands) ==
    IF \E i \in 1..Len(cands) : Passes(cands[i])
    THEN CHOOSE i \in 1..Len(cands) :
             Passes(cands[i]) /\ \A j \in 1..(i - 1) : ~Passes(cands[j])
    ELSE 0

\* the step of a stage is among the steps the call has run
HasRun(stage) == \E i \in 1..Len(ran) : ran[i] = stage

\* the candidates of a stage of 2-3, in the order of appearance in the reply
StageCandidates(stage) ==
    IF stage = "code_block_json" THEN FencedBlocks(response_text, 1)
    ELSE BraceMatches(response_text, 1)

\* C21: in the fenced-block stage and in the brace-scan stage the candidates
\* are tried in the order of appearance; a candidate that fails to parse or
\* fails the shape check is skipped, and whenever the stage runs and a
\* candidate passes, the stage returns the record built from the first
\* candidate that passes.
FirstPassingCandidateWins ==
    \A stage \in {"code_block_json", "pattern_json"} :
        LET cands == StageCandidates(stage)
            first == FirstPassing(cands)
        IN  /\ (Returned /\ HasRun(stage) /\ first # 0) =>
                  /\ builtBy = stage
                  /\ Get(result, "analysis_source").s = stage
            /\ (Returned /\ builtBy = stage) =>
                  /\ first # 0
                  /\ accepted = JsonLoads(Strip(cands[first])).value
                  /\ Get(result, "foods_detected") = Get(accepted, "foods_detected")

\* the first lexeme of the reply that pattern p of a family matches in, 0 if
\* there is none
FirstHit(family, p) ==
    LET hits == {i \in 1..Len(response_text) : Capture(family, response_text[i], p).hit}
    IN  IF hits = {} THEN 0 ELSE CHOOSE i \in hits : \A j \in hits : i <= j

\* pattern p of a family yields a usable value: its first match is a number,
\* or a list that is not empty once split and filtered
Usable(family, p) ==
    /\ FirstHit(family, p) # 0
    /\ \/ family = "calorie"
       \/ Capture(family, response_text[FirstHit(family, p)], p).items # <<>>

\* the first pattern of a family, in the order of the family, that yields a
\* usable value; 0 if none does
Winner(family, last) ==
    LET usable == {p \in 1..last : Usable(family, p)}
    IN  IF usable = {} THEN 0 ELSE CHOOSE p \in usable : \A q \in usable : p <= q

WinnerValue(family, last) ==
    Capture(family, response_text[FirstHit(family, Winner(family, last))],
            Winner(family, last))

\* C22: the record heuristic extraction builds is tagged extracted_llm, and
\* each of its three families holds the value of the first pattern of the
\* family, in the order of the family, that yields a usable value, whatever
\* the other families match; a family with no usable match holds its default:
\* the one generic food name, 450, the three generic tips.  foods_detected
\* holds between 1 and 3 names.
ExtractionResolvesEachFamily ==
    (Returned /\ builtBy = "extracted_llm") =>
        /\ Get(result, "analysis_source").s = "extracted_llm"
        /\ Get(result, "foods_detected").l =
              (IF Winner("food", 5) = 0 THEN <<JStr("Makanan dari foto")>>
               ELSE WinnerValue("food", 5).items)
        /\ Get(result, "total_calories") =
              Keyed("total_calories",
                    JInt(IF Winner("calorie", 4) = 0 THEN 450
                         ELSE WinnerValue("calorie", 4).n))
        /\ Get(result, "health_tips").l =
              (IF Winner("tip", 3) = 0
               THEN <<JStr("Konsumsi dengan porsi seimbang"),
                      JStr("Perbanyak sayuran"),
                      JStr("Minum air putih cukup")>>
               ELSE WinnerValue("tip", 3).items)
        /\ Len(Get(result, "foods_detected").l) \in 1..3
        /\ \A i \in 1..Len(Get(result, "foods_detected").l) :
              Get(result, "foods_detected").l[i].t = "str"

\* C22 witness: extraction has built a record from a reply in which a later
\* calorie pattern matches an earlier lexeme than the winning pattern does,
\* and in which no tip pattern matches.
ExtractedByPatternOrder ==
    /\ Returned
    /\ builtBy = "extracted_llm"
    /\ Winner("calorie", 4) = 2
    /\ Usable("calorie", 4)
    /\ FirstHit("calorie", 4) < FirstHit("calorie", 2)
    /\ Winner("food", 5) = 4
    /\ Usable("food", 5)

(***************************************************************************)
(* Properties of the daily meals and the nutrition logs.                   *)
(***************************************************************************)
\* protein, carbohydrates and fat of the record are "<integer>g" strings
HoldsGramStrings(record) ==
    /\ Has(record, "nutritional_breakdown")
    /\ \A key \in {"protein", "carbohydrates", "fat"} :
          /\ Has(Get(record, "nutritional_breakdown"), key)
          /\ Get(Get(record, "nutritional_breakdown"), key).t = "str"

RECURSIVE CaloriesOfMeals(_)
CaloriesOfMeals(meals) ==
    IF meals = <<>> THEN 0
    ELSE Hundredths(Get(Head(meals).analysis_result, "total_calories"))
             + CaloriesOfMeals(Tail(meals))

\* C23: for a user and a date whose stored daily meals hold records of
\* analyze_food with protein, carbohydrates and fat as "<integer>g" strings,
\* get_daily_nutrition_summary completes without raising and returns the sum
\* of the total_calories of the meals and the number of the meals.
SummaryCompletesWithTotals ==
    LET meals == get_daily_meals(reply.username, reply.date)
    IN  ( /\ reply.op = "get_daily_nutrition_summary"
          /\ \A i \in 1..Len(meals) : HoldsGramStrings(meals[i].analysis_result) )
        => /\ ~reply.raised
           /\ reply.total_calories = CaloriesOfMeals(meals)
           /\ reply.meal_count = Len(meals)

\* C24: daily_meals holds at most one document per username, date and
\* meal_type; the documents are exactly what the most recent successful save
\* of each slot stored; nutrition_logs holds one entry per successful
\* save_nutrition_log, in the order of the calls, none replaced.
MealsHoldLatestSavePerSlot ==
    /\ \A i, j \in 1..Len(daily_meals) :
          SameSlot(daily_meals[i], daily_meals[j]) => i = j
    /\ {daily_meals[i] : i \in 1..Len(daily_meals)} = lastSaved
    /\ nutrition_logs = logged
    /\ \A i, j \in 1..Len(nutrition_logs) :
          i < j => nutrition_logs[i].timestamp < nutrition_logs[j].timestamp

\* C24 witness: the first document was replaced by a save of its slot made
\* after the save that inserted the second document, with another photo than
\* the slot held
SlotSavedAgain ==
    /\ Len(daily_meals) = 2
    /\ daily_meals[1].timestamp > daily_meals[2].timestamp
    /\ daily_meals[1].image_data = "photo-2"
    /\ daily_meals[2].username # daily_meals[1].username
    /\ reply.op = "save_daily_meal"
    /\ reply.ok

\* C25: under any interleaving of the create_user calls of concurrent
\* sessions, users never holds two accounts with the same username or the
\* same email, and a call whose username or email existed when it asked
\* returns (False, "Username or email already exists").
AccountsStayUnique ==
    /\ \A i, j \in 1..Len(users) :
          (users[i].username = users[j].username \/ users[i].email = users[j].email)
              => i = j
    /\ \A s \in Sessions :
          (creating[s].at = "returned" /\ creating[s].existed) =>
              /\ ~creating[s].success
              /\ creating[s].message = "Username or email already exists"

(***************************************************************************)
(* Properties of the login state.                                          *)
(***************************************************************************)
\* C26: a session is logged in as u only after authenticate_user accepted u
\* in this session or in an earlier remembered session; the query parameters
\* of a URL alone never log a session in.
LoggedInOnlyAfterAuthentication ==
    session_state.logged_in => session_state.username \in authenticated

\* C27: after clear_persistent_session the session is logged out, username
\* and user_data are None and both query parameters are gone, and it stays
\* so on every later run of the session until a login succeeds;
\* check_persistent_session runs at most once in a session.
LogoutIsFinalUntilLogin ==
    /\ loggedOut # "no" =>
          /\ ~session_state.logged_in
          /\ session_state.username = "None"
          /\ session_state.user_data = "None"
          /\ query_params = NoParams
    /\ checks <= 1

\* C27 witness: a remembered session has logged out and the script has run
\* again since, without a successful login
RerunAfterLogout ==
    /\ loggedOut = "stayed"
    /\ authenticated # {}
    /\ session_state.session_checked
    /\ checks = 1

====
